---- MODULE Spec2Model ----
(***************************************************************************)
(* A model of the dicom-rs reader: the nom-based byte parsers              *)
(* (src/src/parser), the object driver Parser::parse_object, the transfer  *)
(* syntax table and the typed accessors (src/src/types.rs).                *)
(*                                                                         *)
(* A byte buffer is a sequence of integers 0..255; a slice &[u8] is the    *)
(* sequence of its bytes.  A u16 is an integer 0..65535.  A u32 is kept as *)
(* its two 16-bit halves [hi, lo], a usize as four 16-bit limbs, so that   *)
(* 0xFFFFFFFF and wrap-around are represented exactly.                     *)
(***************************************************************************)
EXTENDS Integers, Sequences, FiniteSets, TLC

VARIABLES
    input,            \* the buffer handed to Parser::parse_object
    doc,              \* the abstract file the buffer was encoded from (history)
    parse_image_flag, \* Parser.parse_image
    overflow_checks,  \* build profile: integer overflow panics (debug) or wraps
    state,            \* ParserState of parse_object's loop
    current_buf,      \* parse_object's current_buf
    obj,              \* parse_object's obj: Option<DicomObject>
    outcome,          \* what the call has done so far: Running, Ok, Err, Panic
    error,            \* the DicomError kind returned, or the panic's message
    returned,         \* the DicomObject handed to the caller, if any
    trace,            \* the ParserStates the loop has handled, in order (history)
    fn_in,            \* argument of the function a unit specification applies
    fn_out,           \* its result
    frames            \* the loops in progress, innermost last, when the parse
                      \* is followed one loop iteration at a time

vars == <<input, doc, parse_image_flag, overflow_checks, state, current_buf,
          obj, outcome, error, returned, trace, fn_in, fn_out, frames>>

(***************************************************************************)
(* Results of a nom parser: IResult<&[u8], T>, plus the panic that unwinds *)
(* through it.                                                             *)
(***************************************************************************)
Ok(rest, val) == [st |-> "Ok", rest |-> rest, val |-> val, kind |-> "None"]

\* nom::Err::Incomplete: a streaming parser ran out of bytes
Incomplete == [st |-> "Err", rest |-> <<>>, val |-> <<>>, kind |-> "Incomplete"]

\* nom::Err::Error: the bytes do not match
Error(k) == [st |-> "Err", rest |-> <<>>, val |-> <<>>, kind |-> k]

\* a panic!, a failed assert!, an unwrap/expect on an absent value
Panic(msg) == [st |-> "Panic", rest |-> <<>>, val |-> <<>>, kind |-> msg]

IsOk(r) == r.st = "Ok"

\* `let (rest, x) = r?; K`: the continuation on success, the error (or the
\* unwinding panic) otherwise
Try(r, K(_)) == IF IsOk(r) THEN K(r) ELSE r

\* the same with r evaluated once, before the continuation is entered
TryNow(r, K(_)) == CHOOSE out \in { IF IsOk(x) THEN K(x) ELSE x : x \in {r} } : TRUE

Drop(buf, n) == SubSeq(buf, n + 1, Len(buf))

Take(buf, n) == SubSeq(buf, 1, n)

(***************************************************************************)
(* Integers of fixed width.                                                *)
(***************************************************************************)
U16Max == 65535

U32(hi, lo) == [hi |-> hi, lo |-> lo]

\* std::u32::MAX
U32_MAX == U32(U16Max, U16Max)

\* `length as u32` of a u16
U32FromU16(n) == U32(0, n)

\* `length as usize`: four 16-bit limbs, least significant first
UsizeFromU32(l) == <<l.lo, l.hi, 0, 0>>

UsizeZero == <<0, 0, 0, 0>>

\* a - n on usize for 0 <= n <= 65535, with the borrow out of the top limb
RECURSIVE UsizeBorrow(_, _)
UsizeBorrow(a, i) ==
    IF i > Len(a) THEN [limbs |-> a, borrow |-> TRUE]
    ELSE IF a[i] > 0 THEN [limbs |-> [a EXCEPT ![i] = a[i] - 1], borrow |-> FALSE]
    ELSE UsizeBorrow([a EXCEPT ![i] = U16Max], i + 1)

UsizeSub(a, n) ==
    IF a[1] >= n THEN [limbs |-> [a EXCEPT ![1] = a[1] - n], borrow |-> FALSE]
    ELSE UsizeBorrow([a EXCEPT ![1] = a[1] + 65536 - n], 2)

\* `remaining_len -= parsed_len`: the panic of the overflow check, or the
\* wrapped difference without it
usize_sub_assign(a, n) ==
    LET d == UsizeSub(a, n)
    IN  IF d.borrow /\ overflow_checks THEN Panic("attempt to subtract with overflow")
        ELSE Ok(<<>>, d.limbs)

\* whether at least the u32 `l` many bytes are in a buffer of n < 2^31 bytes
U32AtMost(l, n) == l.hi < 32768 /\ l.hi * 65536 + l.lo <= n

U32ToInt(l) == l.hi * 65536 + l.lo

(***************************************************************************)
(* Tags (src/src/tag.rs).  Tag::from_values maps (group, element) to the   *)
(* dictionary's variant or to UNKNOWN(group, element); equality of tags is *)
(* equality of the pairs.                                                  *)
(***************************************************************************)
Tag_from_values(group, element) == <<group, element>>

get_group(tag) == tag[1]

Tag_x0002x0010 == <<2, 16>>
Tag_x0028x0002 == <<40, 2>>
Tag_x0028x0004 == <<40, 4>>
Tag_x0028x0008 == <<40, 8>>
Tag_x0028x0010 == <<40, 16>>
Tag_x0028x0011 == <<40, 17>>
Tag_x0028x0100 == <<40, 256>>
Tag_x0028x0101 == <<40, 257>>
Tag_x7FE0x0010 == <<32736, 16>>
Tag_xFFFExE000 == <<65534, 57344>>
Tag_xFFFExE00D == <<65534, 57357>>
Tag_xFFFExE0DD == <<65534, 57565>>

(***************************************************************************)
(* Value representations (src/src/vr.rs).  A VR is its two characters      *)
(* (ASCII codes) and whether the vr! table lists them.                     *)
(***************************************************************************)
\* the codes of the vr! table without special length: UL CS AG DA DS DT SH ST US UI LO PN AS SL
NormalVRs ==
    { <<85, 76>>, <<67, 83>>, <<65, 71>>, <<68, 65>>, <<68, 83>>, <<68, 84>>,
      <<83, 72>>, <<83, 84>>, <<85, 83>>, <<85, 73>>, <<76, 79>>, <<80, 78>>,
      <<65, 83>>, <<83, 76>> }

\* the codes with special length: OB OD OF OL OV OW SQ SV UC UR UT UN UV
SpecialVRs ==
    { <<79, 66>>, <<79, 68>>, <<79, 70>>, <<79, 76>>, <<79, 86>>, <<79, 87>>,
      <<83, 81>>, <<83, 86>>, <<85, 67>>, <<85, 82>>, <<85, 84>>, <<85, 78>>,
      <<85, 86>> }

KnownVRs == NormalVRs \cup SpecialVRs

ValueRepresentation_from_chars(first, second) ==
    [known |-> <<first, second>> \in KnownVRs, chars |-> <<first, second>>]

has_special_length(vr) == vr.known /\ vr.chars \in SpecialVRs

\* Option<ValueRepresentation>
NoneVR == [some |-> FALSE, known |-> FALSE, chars |-> <<>>]

SomeVR(vr) == [some |-> TRUE, known |-> vr.known, chars |-> vr.chars]

(***************************************************************************)
(* Transfer syntaxes (src/src/types.rs).                                   *)
(***************************************************************************)
little_endian_explicit ==
    [endianness |-> "Little", is_vr_explicit |-> TRUE, compression_scheme |-> "None"]

big_endian_explicit ==
    [endianness |-> "Big", is_vr_explicit |-> TRUE, compression_scheme |-> "None"]

little_endian_implicit ==
    [endianness |-> "Little", is_vr_explicit |-> FALSE, compression_scheme |-> "None"]

with_compression_scheme(scheme) ==
    [endianness |-> "Little", is_vr_explicit |-> TRUE, compression_scheme |-> scheme]

(***************************************************************************)
(* Primitive parsers (src/src/parser/mod.rs), nom's streaming versions.    *)
(***************************************************************************)
\* nom::bytes::streaming::take
take(n, buf) ==
    IF Len(buf) < n THEN Incomplete ELSE Ok(Drop(buf, n), Take(buf, n))

parse_data(buf, length) ==
    IF ~U32AtMost(length, Len(buf)) THEN Incomplete
    ELSE take(U32ToInt(length), buf)

le_u16(buf) ==
    IF Len(buf) < 2 THEN Incomplete ELSE Ok(Drop(buf, 2), buf[1] + 256 * buf[2])

be_u16(buf) ==
    IF Len(buf) < 2 THEN Incomplete ELSE Ok(Drop(buf, 2), 256 * buf[1] + buf[2])

le_u32(buf) ==
    IF Len(buf) < 4 THEN Incomplete
    ELSE Ok(Drop(buf, 4), U32(buf[3] + 256 * buf[4], buf[1] + 256 * buf[2]))

be_u32(buf) ==
    IF Len(buf) < 4 THEN Incomplete
    ELSE Ok(Drop(buf, 4), U32(256 * buf[1] + buf[2], 256 * buf[3] + buf[4]))

parse_u32(buf, endian) == IF endian = "Little" THEN le_u32(buf) ELSE be_u32(buf)

parse_u16(buf, endian) == IF endian = "Little" THEN le_u16(buf) ELSE be_u16(buf)

parse_tag(buf, endian) ==
    Try(parse_u16(buf, endian), LAMBDA group :
    Try(parse_u16(group.rest, endian), LAMBDA element :
    Ok(element.rest, Tag_from_values(group.val, element.val))))

\* nom::combinator::peek: the parser's value, the input untouched
peek_tag(buf, endian) ==
    Try(parse_tag(buf, endian), LAMBDA r : Ok(buf, r.val))

\* VR_CHARS: the ASCII letters of both cases
VR_CHARS == (65 .. 90) \cup (97 .. 122)

\* nom::character::streaming::one_of(VR_CHARS)
one_of_VR_CHARS(buf) ==
    IF Len(buf) < 1 THEN Incomplete
    ELSE IF buf[1] \in VR_CHARS THEN Ok(Drop(buf, 1), buf[1])
    ELSE Error("OneOf")

\* parse_vr taking the next two bytes whatever they are
parse_vr_any_bytes(buf) ==
    Try(take(2, buf), LAMBDA chars :
    Ok(chars.rest, ValueRepresentation_from_chars(chars.val[1], chars.val[2])))

parse_vr(buf) ==
    Try(one_of_VR_CHARS(buf), LAMBDA first_char :
    Try(one_of_VR_CHARS(first_char.rest), LAMBDA second_char :
    Ok(second_char.rest, ValueRepresentation_from_chars(first_char.val, second_char.val))))

\* cond(..) applying parse_vr whatever the transfer syntax
cond_parse_vr_always(explicit, buf) ==
    Try(parse_vr(buf), LAMBDA r : Ok(r.rest, SomeVR(r.val)))

\* cond(transfer_syntax.is_vr_explicit(), parse_vr)
cond_parse_vr(explicit, buf) ==
    IF explicit
    THEN Try(parse_vr(buf), LAMBDA r : Ok(r.rest, SomeVR(r.val)))
    ELSE Ok(buf, NoneVR)

\* parse_length reading the four bytes of the length where the padding is
parse_length_no_padding(buf, vr, endian) ==
    IF vr.some /\ ~has_special_length(vr)
    THEN Try(parse_u16(buf, endian), LAMBDA length :
         Ok(length.rest, U32FromU16(length.val)))
    ELSE parse_u32(buf, endian)

parse_length(buf, vr, endian) ==
    IF vr.some
    THEN IF has_special_length(vr)
         THEN Try(parse_u16(buf, endian), LAMBDA padding :
              parse_u32(padding.rest, endian))
         ELSE Try(parse_u16(buf, endian), LAMBDA length :
              Ok(length.rest, U32FromU16(length.val)))
    ELSE parse_u32(buf, endian)

(***************************************************************************)
(* Values, data elements and items (src/src/types.rs, parser/sq.rs).       *)
(***************************************************************************)
Value_Buf(bytes) == [kind |-> "Buf", bytes |-> bytes, items |-> <<>>]

Value_Sequence(items) == [kind |-> "Sequence", bytes |-> <<>>, items |-> items]

DataElement(tag, vr, length, data) ==
    [tag |-> tag, vr |-> vr, length |-> length, data |-> data]

Item(elements) == [elements |-> elements]

(***************************************************************************)
(* Element, sequence and item parsers (parser/element.rs, parser/sq.rs).   *)
(* The loops of parse_seq and parse_item are the recursive operators       *)
(* parse_seq_loop and parse_item_loop, one unfolding per iteration.        *)
(***************************************************************************)
RECURSIVE parse_dataelement(_, _)
RECURSIVE parse_seq_loop(_, _, _)
RECURSIVE parse_item_loop(_, _, _, _, _)

\* the statements of parse_item's loop after the stop condition
parse_item_body(current, remaining_len, is_len_undefined, elements, transfer_syntax) ==
    Try(parse_dataelement(current, transfer_syntax), LAMBDA el :
    Try(usize_sub_assign(remaining_len, Len(current) - Len(el.rest)), LAMBDA left :
    parse_item_loop(el.rest, left.val, is_len_undefined, Append(elements, el.val),
                    transfer_syntax)))

\* parse_item's loop without line 93: the item delimiter is seen and left
parse_item_loop_keep_delimiter(current, remaining_len, is_len_undefined, elements, ts) ==
    IF is_len_undefined
    THEN Try(peek_tag(current, "Little"), LAMBDA next_tag :
         IF next_tag.val = Tag_xFFFExE00D
         THEN Ok(current, Item(elements))
         ELSE parse_item_body(current, remaining_len, is_len_undefined, elements, ts))
    ELSE IF remaining_len = UsizeZero THEN Ok(current, Item(elements))
    ELSE parse_item_body(current, remaining_len, is_len_undefined, elements, ts)

parse_item_loop(current, remaining_len, is_len_undefined, elements, transfer_syntax) ==
    IF is_len_undefined
    THEN Try(peek_tag(current, "Little"), LAMBDA next_tag :
         IF next_tag.val = Tag_xFFFExE00D
         THEN Try(parse_dataelement(current, little_endian_implicit), LAMBDA delim :
              Ok(delim.rest, Item(elements)))
         ELSE parse_item_body(current, remaining_len, is_len_undefined, elements,
                              transfer_syntax))
    ELSE IF remaining_len = UsizeZero THEN Ok(current, Item(elements))
    ELSE parse_item_body(current, remaining_len, is_len_undefined, elements,
                         transfer_syntax)

parse_item(buf, transfer_syntax) ==
    Try(parse_tag(buf, transfer_syntax.endianness), LAMBDA tag :
    IF tag.val # Tag_xFFFExE000 THEN Panic("assertion failed: (left == right)")
    ELSE Try(parse_length(tag.rest, NoneVR, transfer_syntax.endianness), LAMBDA length :
         parse_item_loop(length.rest, UsizeFromU32(length.val), length.val = U32_MAX,
                         <<>>, transfer_syntax)))

parse_seq_loop(current, items, transfer_syntax) ==
    Try(peek_tag(current, "Little"), LAMBDA next_tag :
    IF next_tag.val = Tag_xFFFExE000
    THEN Try(parse_item(current, transfer_syntax), LAMBDA item :
         parse_seq_loop(item.rest, Append(items, item.val), transfer_syntax))
    ELSE IF next_tag.val = Tag_xFFFExE0DD
    THEN Try(parse_dataelement(current, little_endian_implicit), LAMBDA delim :
         Ok(delim.rest, items))
    ELSE Panic("Unexpected tag"))

parse_seq(buf, length, transfer_syntax) == parse_seq_loop(buf, <<>>, transfer_syntax)

\* parse_element_data without the test of line 35: the value is always taken
\* as length bytes
parse_element_data_always_bytes(buf, length, transfer_syntax) ==
    Try(parse_data(buf, length), LAMBDA data :
    Ok(data.rest, Value_Buf(data.val)))

parse_element_data(buf, length, transfer_syntax) ==
    IF length = U32_MAX
    THEN Try(parse_seq(buf, length, transfer_syntax), LAMBDA items :
         Ok(items.rest, Value_Sequence(items.val)))
    ELSE Try(parse_data(buf, length), LAMBDA data :
         Ok(data.rest, Value_Buf(data.val)))

parse_dataelement(buf, transfer_syntax) ==
    Try(parse_tag(buf, transfer_syntax.endianness), LAMBDA tag :
    Try(cond_parse_vr(transfer_syntax.is_vr_explicit, tag.rest), LAMBDA vr :
    Try(parse_length(vr.rest, vr.val, transfer_syntax.endianness), LAMBDA length :
    Try(parse_element_data(length.rest, length.val, transfer_syntax), LAMBDA data :
    Ok(data.rest, DataElement(tag.val, vr.val, length.val, data.val))))))

(***************************************************************************)
(* Typed results (DicomResult<T>) reuse the result records: Ok(<<>>, v)    *)
(* and Error(kind of DicomError).                                          *)
(***************************************************************************)
DicomOk(v) == Ok(<<>>, v)

DicomErr(kind) == Error(kind)

\* std::str::from_utf8: whether the bytes are well-formed UTF-8
RECURSIVE IsUtf8From(_, _)
IsUtf8From(b, i) ==
    LET c == b[i]
        cont(j) == j <= Len(b) /\ b[j] \in 128 .. 191
        second(lo, hi) == i + 1 <= Len(b) /\ b[i + 1] \in lo .. hi
    IN  IF i > Len(b) THEN TRUE
        ELSE IF c < 128 THEN IsUtf8From(b, i + 1)
        ELSE IF c \in 194 .. 223 THEN cont(i + 1) /\ IsUtf8From(b, i + 2)
        ELSE IF c = 224 THEN second(160, 191) /\ cont(i + 2) /\ IsUtf8From(b, i + 3)
        ELSE IF c = 237 THEN second(128, 159) /\ cont(i + 2) /\ IsUtf8From(b, i + 3)
        ELSE IF c \in 225 .. 239 THEN cont(i + 1) /\ cont(i + 2) /\ IsUtf8From(b, i + 3)
        ELSE IF c = 240
             THEN second(144, 191) /\ cont(i + 2) /\ cont(i + 3) /\ IsUtf8From(b, i + 4)
        ELSE IF c \in 241 .. 243
             THEN cont(i + 1) /\ cont(i + 2) /\ cont(i + 3) /\ IsUtf8From(b, i + 4)
        ELSE IF c = 244
             THEN second(128, 143) /\ cont(i + 2) /\ cont(i + 3) /\ IsUtf8From(b, i + 4)
        ELSE FALSE

from_utf8(bytes) == IF IsUtf8From(bytes, 1) THEN DicomOk(bytes) ELSE DicomErr("ParseCS")

\* "1.2.840.10008.1.2"
UID_1_2 == <<49, 46, 50, 46, 56, 52, 48, 46, 49, 48, 48, 48, 56, 46, 49, 46, 50>>

\* the literals matched by TransferSyntax::try_from
UID_BigEndianExplicit_Nul == UID_1_2 \o <<46, 50, 0>>
UID_LittleEndianExplicit_Nul == UID_1_2 \o <<46, 49, 0>>
UID_LittleEndianImplicit_Nul == UID_1_2 \o <<0>>
UID_Jpeg2000Lossless == UID_1_2 \o <<46, 52, 46, 57, 48>>

\* try_from with one trailing NUL trimmed, or none, before the match
TransferSyntax_try_from_trimmed(v) ==
    IF v.kind = "Buf"
    THEN Try(from_utf8(v.bytes), LAMBDA value :
         Try(DicomOk(IF Len(value.val) > 0 /\ value.val[Len(value.val)] = 0
                     THEN Take(value.val, Len(value.val) - 1) ELSE value.val),
             LAMBDA uid :
         IF uid.val \o <<0>> = UID_BigEndianExplicit_Nul THEN DicomOk(big_endian_explicit)
         ELSE IF uid.val \o <<0>> = UID_LittleEndianExplicit_Nul
              THEN DicomOk(little_endian_explicit)
         ELSE IF uid.val \o <<0>> = UID_LittleEndianImplicit_Nul
              THEN DicomOk(little_endian_implicit)
         ELSE IF uid.val = UID_Jpeg2000Lossless
              THEN DicomOk(with_compression_scheme("Jpeg2000Lossless"))
         ELSE DicomErr("TransferSyntaxNotSupported")))
    ELSE DicomErr("ConvertTypeExpectBuf")

\* impl TryFrom<&Value> for TransferSyntax
TransferSyntax_try_from(v) ==
    IF v.kind = "Buf"
    THEN Try(from_utf8(v.bytes), LAMBDA value :
         IF value.val = UID_BigEndianExplicit_Nul THEN DicomOk(big_endian_explicit)
         ELSE IF value.val = UID_LittleEndianExplicit_Nul
              THEN DicomOk(little_endian_explicit)
         ELSE IF value.val = UID_LittleEndianImplicit_Nul
              THEN DicomOk(little_endian_implicit)
         ELSE IF value.val = UID_Jpeg2000Lossless
              THEN DicomOk(with_compression_scheme("Jpeg2000Lossless"))
         ELSE DicomErr("TransferSyntaxNotSupported"))
    ELSE DicomErr("ConvertTypeExpectBuf")

(***************************************************************************)
(* DicomObject and its accessors (src/src/types.rs).                       *)
(***************************************************************************)
NoImage == [kind |-> "None"]

DicomObject_new(elements, transfer_syntax) ==
    [elements |-> elements, transfer_syntax |-> transfer_syntax, image |-> NoImage]

\* append putting the new elements first
DicomObject_prepend(o, elements) == [o EXCEPT !.elements = elements \o o.elements]

DicomObject_append(o, elements) == [o EXCEPT !.elements = o.elements \o elements]

\* Option<DicomObject>
NoObject == [some |-> FALSE]

SomeObject(o) == [some |-> TRUE, o |-> o]

\* get_element returning the last element with the tag
get_element_last(o, tag) ==
    LET hits == {i \in 1 .. Len(o.elements) : o.elements[i].tag = tag}
    IN  IF hits = {} THEN 0 ELSE CHOOSE i \in hits : \A j \in hits : i >= j

\* the index of the first element with the tag, 0 when there is none
get_element(o, tag) ==
    LET hits == {i \in 1 .. Len(o.elements) : o.elements[i].tag = tag}
    IN  IF hits = {} THEN 0 ELSE CHOOSE i \in hits : \A j \in hits : i <= j

\* impl FromDicomValue for u16: a Cursor over the bytes, read_u16 in the
\* endianness of the transfer syntax
u16_from_element(el, transfer_syntax) ==
    IF el.data.kind = "Buf"
    THEN IF Len(el.data.bytes) < 2 THEN DicomErr("IoError")
         ELSE IF transfer_syntax.endianness = "Little"
              THEN DicomOk(el.data.bytes[1] + 256 * el.data.bytes[2])
              ELSE DicomOk(256 * el.data.bytes[1] + el.data.bytes[2])
    ELSE DicomErr("ConvertTypeExpectBuf")

try_get_u16(o, tag) ==
    LET i == get_element(o, tag)
    IN  IF i = 0 THEN DicomErr("NoSuchTag")
        ELSE u16_from_element(o.elements[i], o.transfer_syntax)

(***************************************************************************)
(* Age (src/src/types.rs).  A &str is its UTF-8 bytes.                     *)
(***************************************************************************)
IsDigit(b) == 48 <= b /\ b <= 57

\* the value of a string of decimal digits
RECURSIVE DecimalValue(_)
DecimalValue(s) ==
    IF s = <<>> THEN 0 ELSE 10 * DecimalValue(Take(s, Len(s) - 1)) + (s[Len(s)] - 48)

\* str::parse::<u8>: an optional '+' before the digits, no '-', at least one
\* digit, every character a decimal digit, the value at most u8::MAX
u8_from_str(s) ==
    LET digits == IF s # <<>> /\ s[1] = 43 THEN Tail(s) ELSE s
    IN  IF s = <<>> THEN DicomErr("Empty")
        ELSE IF digits = <<>> THEN DicomErr("InvalidDigit")
        ELSE IF \E i \in DOMAIN digits : ~IsDigit(digits[i]) THEN DicomErr("InvalidDigit")
        ELSE IF DecimalValue(digits) > 255 THEN DicomErr("PosOverflow")
        ELSE DicomOk(DecimalValue(digits))

\* whether byte index i (from 0) is a char boundary of the &str s
is_char_boundary(s, i) ==
    i = 0 \/ i = Len(s) \/ (i < Len(s) /\ s[i + 1] \notin 128 .. 191)

AgeFormat_parse_from_str(repr) ==
    IF repr = <<68>> THEN DicomOk("Day")
    ELSE IF repr = <<87>> THEN DicomOk("Week")
    ELSE IF repr = <<77>> THEN DicomOk("Month")
    ELSE IF repr = <<89>> THEN DicomOk("Year")
    ELSE DicomErr("ParseAS")

Age(age, format) == [age |-> age, format |-> format]

\* .map_err(|e| DicomError::ParseAS(..))
map_err_ParseAS(r) == IF r.st = "Err" THEN DicomErr("ParseAS") ELSE r

Age_parse_from_str(repr) ==
    IF Len(repr) # 4 THEN DicomErr("ParseAS")
    ELSE IF ~is_char_boundary(repr, 3)
    THEN Panic("byte index 3 is not a char boundary")
    ELSE Try(map_err_ParseAS(u8_from_str(SubSeq(repr, 1, 3))), LAMBDA age :
         Try(AgeFormat_parse_from_str(SubSeq(repr, 4, 4)), LAMBDA format :
         DicomOk(Age(age.val, format.val))))

(***************************************************************************)
(* The conversions of FromDicomValue and try_get (src/src/types.rs).  The  *)
(* target type is a string naming it.  NaiveDate::parse_from_str is        *)
(* chrono's: whether it accepts the string is the parameter parsed.        *)
(***************************************************************************)
String_from_element(el, transfer_syntax) ==
    IF el.data.kind = "Buf" THEN from_utf8(el.data.bytes)
    ELSE DicomErr("ConvertTypeExpectBuf")

Age_from_element(el, transfer_syntax) ==
    IF el.data.kind = "Buf"
    THEN Try(from_utf8(el.data.bytes), LAMBDA repr : Age_parse_from_str(repr.val))
    ELSE DicomErr("ConvertTypeExpectBuf")

NaiveDate_from_element(el, transfer_syntax, parsed) ==
    IF el.data.kind = "Buf"
    THEN Try(from_utf8(el.data.bytes), LAMBDA repr :
         IF parsed THEN DicomOk([date |-> repr.val]) ELSE DicomErr("ParseDA"))
    ELSE DicomErr("ConvertTypeExpectBuf")

\* str::split('^'): the pieces between the separators, empty ones included
RECURSIVE split(_, _, _)
split(s, sep, piece) ==
    IF s = <<>> THEN <<piece>>
    ELSE IF Head(s) = sep THEN <<piece>> \o split(Tail(s), sep, <<>>)
    ELSE split(Tail(s), sep, Append(piece, Head(s)))

PersonName_from_element(el, transfer_syntax) ==
    IF el.data.kind = "Buf"
    THEN Try(from_utf8(el.data.bytes), LAMBDA repr :
         DicomOk([names |-> split(repr.val, 94, <<>>)]))
    ELSE DicomErr("ConvertTypeExpectBuf")

TargetTypes == { "u16", "String", "Age", "NaiveDate", "PersonName" }

from_element(T, el, transfer_syntax, parsed) ==
    IF T = "u16" THEN u16_from_element(el, transfer_syntax)
    ELSE IF T = "String" THEN String_from_element(el, transfer_syntax)
    ELSE IF T = "Age" THEN Age_from_element(el, transfer_syntax)
    ELSE IF T = "NaiveDate" THEN NaiveDate_from_element(el, transfer_syntax, parsed)
    ELSE PersonName_from_element(el, transfer_syntax)

try_get(T, o, tag, parsed) ==
    LET i == get_element(o, tag)
    IN  IF i = 0 THEN DicomErr("NoSuchTag")
        ELSE from_element(T, o.elements[i], o.transfer_syntax, parsed)

(***************************************************************************)
(* Pixel decoder (src/src/parser/image.rs).  An ImageBuffer is its width,  *)
(* its height and its pixels, a function of (x, y), zero at creation.      *)
(***************************************************************************)
Pow2(n) == 2 ^ n

\* the bitwise and / or of two n-bit integers
RECURSIVE BitAnd(_, _, _)
BitAnd(a, b, n) ==
    IF n = 0 THEN 0
    ELSE (a % 2) * (b % 2) + 2 * BitAnd(a \div 2, b \div 2, n - 1)

BitOr(a, b, n) == a + b - BitAnd(a, b, n)

\* u16 << k and u16 >> k for 0 <= k < 16
Shl16(v, k) == (v % Pow2(16 - k)) * Pow2(k)

Shr16(v, k) == v \div Pow2(k)

ImageBuffer_new(width, height) ==
    [width |-> width, height |-> height,
     pixels |-> [p \in (0 .. width - 1) \X (0 .. height - 1) |-> 0]]

put_pixel(img, x, y, v) == [img EXCEPT !.pixels[<<x, y>>] = v]

\* nom::number::complete::be_u8
be_u8(buf) == IF Len(buf) < 1 THEN Error("Eof") ELSE Ok(Drop(buf, 1), buf[1])

\* the loops `for y in 0..rows { for x in 0..columns {..} }`, one unfolding per pixel
RECURSIVE parse_img_u8_loop(_, _, _, _, _, _)

\* parse_img_u8 with the loops exchanged: `for x in 0..columns { for y in 0..rows`
parse_img_u8_loop_column_major(cur_buf, img, x, y, rows, columns) ==
    IF x >= columns \/ rows = 0 THEN Ok(cur_buf, img)
    ELSE Try(be_u8(cur_buf), LAMBDA grey_value :
         parse_img_u8_loop(grey_value.rest, put_pixel(img, x, y, grey_value.val),
                           IF y + 1 < rows THEN x ELSE x + 1,
                           IF y + 1 < rows THEN y + 1 ELSE 0, rows, columns))

parse_img_u8_loop(cur_buf, img, x, y, rows, columns) ==
    IF y >= rows \/ columns = 0 THEN Ok(cur_buf, img)
    ELSE Try(be_u8(cur_buf), LAMBDA grey_value :
         parse_img_u8_loop(grey_value.rest, put_pixel(img, x, y, grey_value.val),
                           IF x + 1 < columns THEN x + 1 ELSE 0,
                           IF x + 1 < columns THEN y ELSE y + 1, rows, columns))

parse_img_u8(buf, rows, columns) ==
    parse_img_u8_loop(buf, ImageBuffer_new(columns, rows), 0, 0, rows, columns)

\* the body of `if bits_stored != 16 {..}`: the rescaled sample, or the panic
\* of an overflow check (a subtraction below zero, a shift by 16 or more);
\* without the checks the subtraction wraps and a shift uses its amount mod 16
\* lines 72-74 without the replication: `*pixel = Luma([grey_value << diff])`
extend_bits_shift_only(grey_value, bits_allocated, bits_stored) ==
    IF overflow_checks /\ (bits_allocated < bits_stored \/ bits_stored >= 16
                           \/ bits_allocated - bits_stored >= 16)
    THEN Panic("attempt to shift left with overflow")
    ELSE DicomOk(Shl16(grey_value, (bits_allocated + 65536 - bits_stored) % 16))

\* line 72 shifting by bits_stored: `let left: u16 = grey_value << bits_stored`
extend_bits_shift_by_stored(grey_value, bits_allocated, bits_stored) ==
    LET diff == (bits_allocated + 65536 - bits_stored) % 65536
        ones == IF diff >= 16 THEN U16Max ELSE Pow2(diff) - 1
        mask == Shl16(ones, bits_stored % 16)
        left0 == Shl16(grey_value, bits_stored % 16)
        left == BitOr(left0, Shr16(BitAnd(left0, mask, 16), bits_stored % 16), 16)
    IN  IF overflow_checks /\ (bits_allocated < bits_stored \/ bits_stored >= 16 \/ diff >= 16)
        THEN Panic("attempt to shift left with overflow")
        ELSE DicomOk(left)

extend_bits(grey_value, bits_allocated, bits_stored) ==
    LET under == bits_allocated < bits_stored
        diff == IF under THEN bits_allocated + 65536 - bits_stored
                ELSE bits_allocated - bits_stored
        ones == IF diff >= 16 THEN U16Max ELSE Pow2(diff) - 1
        mask == Shl16(ones, bits_stored % 16)
        left0 == Shl16(grey_value, diff % 16)
        left == BitOr(left0, Shr16(BitAnd(left0, mask, 16), bits_stored % 16), 16)
    IN  IF overflow_checks /\ under THEN Panic("attempt to subtract with overflow")
        ELSE IF overflow_checks /\ bits_stored >= 16
             THEN Panic("attempt to shift left with overflow")
        ELSE IF overflow_checks /\ diff >= 16
             THEN Panic("attempt to shift left with overflow")
        ELSE DicomOk(left)

RECURSIVE parse_img_u16_loop(_, _, _, _, _, _, _, _, _)
parse_img_u16_loop(cur_buf, endian, img, x, y, rows, columns, bits_allocated, bits_stored) ==
    IF y >= rows \/ columns = 0 THEN Ok(cur_buf, img)
    ELSE Try(parse_u16(cur_buf, endian), LAMBDA grey_value :
         Try(IF bits_stored # 16
             THEN extend_bits(grey_value.val, bits_allocated, bits_stored)
             ELSE DicomOk(grey_value.val), LAMBDA pixel :
         parse_img_u16_loop(grey_value.rest, endian, put_pixel(img, x, y, pixel.val),
                            IF x + 1 < columns THEN x + 1 ELSE 0,
                            IF x + 1 < columns THEN y ELSE y + 1,
                            rows, columns, bits_allocated, bits_stored)))

parse_img_u16(buf, endian, rows, columns, bits_allocated, bits_stored) ==
    parse_img_u16_loop(buf, endian, ImageBuffer_new(columns, rows), 0, 0,
                       rows, columns, bits_allocated, bits_stored)

\* DicomImage
Grayscale8(image) == [kind |-> "Grayscale8", image |-> image]

Grayscale16(image) == [kind |-> "Grayscale16", image |-> image]

Jpeg2000(bytes) == [kind |-> "Jpeg2000", image |-> bytes]

\* parse_image without lines 18-21: the compression scheme is not looked at
parse_image_ignoring_compression(buf, transfer_syntax, rows, columns, ba, bits_stored) ==
    TryNow(parse_tag(buf, transfer_syntax.endianness), LAMBDA tag :
    IF tag.val # Tag_x7FE0x0010 THEN Panic("assertion failed: tag == Tag::x7FE0x0010")
    ELSE
    TryNow(cond_parse_vr(transfer_syntax.is_vr_explicit, tag.rest), LAMBDA vr :
    TryNow(parse_length(vr.rest, vr.val, transfer_syntax.endianness), LAMBDA length :
    IF ba = 8
    THEN TryNow(parse_img_u8(length.rest, rows, columns), LAMBDA image :
         Ok(image.rest, Grayscale8(image.val)))
    ELSE IF ba = 16
    THEN TryNow(parse_img_u16(length.rest, transfer_syntax.endianness, rows, columns,
                           ba, bits_stored), LAMBDA image :
         Ok(image.rest, Grayscale16(image.val)))
    ELSE Panic("Bits allocated not supported yet"))))

parse_image(buf, transfer_syntax, rows, columns, bits_allocated, bits_stored) ==
    TryNow(parse_tag(buf, transfer_syntax.endianness), LAMBDA tag :
    IF tag.val # Tag_x7FE0x0010 THEN Panic("assertion failed: tag == Tag::x7FE0x0010")
    ELSE
    TryNow(cond_parse_vr(transfer_syntax.is_vr_explicit, tag.rest), LAMBDA vr :
    TryNow(parse_length(vr.rest, vr.val, transfer_syntax.endianness), LAMBDA length :
    IF transfer_syntax.compression_scheme = "Jpeg2000Lossless"
    THEN Ok(<<>>, Jpeg2000(length.rest))
    ELSE IF bits_allocated = 8
    THEN TryNow(parse_img_u8(length.rest, rows, columns), LAMBDA image :
         Ok(image.rest, Grayscale8(image.val)))
    ELSE IF bits_allocated = 16
    THEN TryNow(parse_img_u16(length.rest, transfer_syntax.endianness, rows, columns,
                           bits_allocated, bits_stored), LAMBDA image :
         Ok(image.rest, Grayscale16(image.val)))
    ELSE Panic("Bits allocated not supported yet"))))

(***************************************************************************)
(* Object driver (src/src/parser/obj.rs).                                  *)
(***************************************************************************)
PreambleLen == 128

\* "DICM"
DICM == <<68, 73, 67, 77>>

\* nom::bytes::streaming::tag("DICM"): an error on the first byte that differs,
\* Incomplete when the bytes present agree and are too few
tag_DICM(buf) ==
    LET n == IF Len(buf) < Len(DICM) THEN Len(buf) ELSE Len(DICM)
    IN  IF \E i \in 1 .. n : buf[i] # DICM[i] THEN Error("Tag")
        ELSE IF Len(buf) < Len(DICM) THEN Incomplete
        ELSE Ok(Drop(buf, Len(DICM)), DICM)

\* parse_header taking four bytes for the magic, whatever they are
parse_header_any_magic(buf) ==
    Try(take(PreambleLen, buf), LAMBDA preamble :
    Try(take(Len(DICM), preamble.rest), LAMBDA magic :
    Ok(magic.rest, <<>>)))

parse_header(buf) ==
    Try(take(PreambleLen, buf), LAMBDA preamble :
    Try(tag_DICM(preamble.rest), LAMBDA magic :
    Ok(magic.rest, <<>>)))

\* Option<TransferSyntax>
NoneTS == [some |-> FALSE, ts |-> little_endian_explicit]

SomeTS(ts) == [some |-> TRUE, ts |-> ts]

\* `ts = Some(TransferSyntax::try_from(&data_element.data).unwrap())` when the
\* element is (0002,0010), ts as it was otherwise
group2_ts(ts, data_element) ==
    IF data_element.tag = Tag_x0002x0010
    THEN Try(TransferSyntax_try_from(data_element.data), LAMBDA syntax :
         DicomOk(SomeTS(syntax.val)))
    ELSE DicomOk(ts)

\* Result::unwrap: the panic when the result is an error
unwrap(r) ==
    IF r.st = "Err" THEN Panic("called Result::unwrap() on an Err value") ELSE r

\* the loop of parse_group2 and what follows it
RECURSIVE parse_group2_loop(_, _, _)
parse_group2_loop(cur_buf, ts, group2_elements) ==
    Try(peek_tag(cur_buf, "Little"), LAMBDA next_tag :
    IF get_group(next_tag.val) # 2
    THEN IF ts.some
         THEN Ok(cur_buf, [transfer_syntax |-> ts.ts, elements |-> group2_elements])
         ELSE Panic("There should be the transfer syntax in group 2.")
    ELSE Try(parse_dataelement(next_tag.rest, little_endian_explicit), LAMBDA data_element :
         Try(unwrap(group2_ts(ts, data_element.val)), LAMBDA new_ts :
         parse_group2_loop(data_element.rest, new_ts.val,
                           Append(group2_elements, data_element.val)))))

parse_group2(buf) == parse_group2_loop(buf, NoneTS, <<>>)

\* parse_content parsing the pixel element as well before it stops
RECURSIVE parse_content_loop_past_pixel(_, _, _)
parse_content_loop_past_pixel(cur_buf, elements, transfer_syntax) ==
    Try(peek_tag(cur_buf, transfer_syntax.endianness), LAMBDA next_tag :
    Try(parse_dataelement(next_tag.rest, transfer_syntax), LAMBDA data_element :
    IF next_tag.val = Tag_x7FE0x0010
    THEN Ok(data_element.rest, Append(elements, data_element.val))
    ELSE parse_content_loop_past_pixel(data_element.rest,
                                       Append(elements, data_element.val),
                                       transfer_syntax)))

RECURSIVE parse_content_loop(_, _, _)
parse_content_loop(cur_buf, elements, transfer_syntax) ==
    Try(peek_tag(cur_buf, transfer_syntax.endianness), LAMBDA next_tag :
    IF next_tag.val = Tag_x7FE0x0010 THEN Ok(cur_buf, elements)
    ELSE Try(parse_dataelement(next_tag.rest, transfer_syntax), LAMBDA data_element :
         parse_content_loop(data_element.rest, Append(elements, data_element.val),
                            transfer_syntax)))

parse_content(buf, transfer_syntax) == parse_content_loop(buf, <<>>, transfer_syntax)

(***************************************************************************)
(* The files the parser is run on.  An abstract file is a header, a list   *)
(* of group-2 elements, a list of content elements and a pixel element; it *)
(* is written out byte for byte by the Enc operators, following the wire   *)
(* format (explicit or implicit VR, either endianness, sentinels in little *)
(* endian), and may be cut short.                                          *)
(***************************************************************************)
MaxDim == 2
MaxItems == 2
CutFrom == 120

Leaf(tag, vr, bytes) ==
    [kind |-> "leaf", tag |-> tag, vr |-> vr, bytes |-> bytes, items |-> <<>>]

SeqEl(tag, items) ==
    [kind |-> "seq", tag |-> tag, vr |-> <<83, 81>>, bytes |-> <<>>, items |-> items]

AItem(undef, els) == [undef |-> undef, els |-> els]

EncU16(n, endian) ==
    IF endian = "Little" THEN <<n % 256, n \div 256>> ELSE <<n \div 256, n % 256>>

EncU32(n, endian) ==
    IF endian = "Little"
    THEN EncU16(n % 65536, endian) \o EncU16(n \div 65536, endian)
    ELSE EncU16(n \div 65536, endian) \o EncU16(n % 65536, endian)

EncTag(tag, endian) == EncU16(tag[1], endian) \o EncU16(tag[2], endian)

Undefined == <<255, 255, 255, 255>>

EncItemDelimiter == EncTag(Tag_xFFFExE00D, "Little") \o <<0, 0, 0, 0>>

EncSeqDelimiter == EncTag(Tag_xFFFExE0DD, "Little") \o <<0, 0, 0, 0>>

RECURSIVE EncEl(_, _)
RECURSIVE EncEls(_, _)
RECURSIVE EncItems(_, _)

EncEls(els, ts) ==
    IF els = <<>> THEN <<>> ELSE EncEl(Head(els), ts) \o EncEls(Tail(els), ts)

EncItem(item, ts) ==
    LET body == EncEls(item.els, ts)
    IN  EncTag(Tag_xFFFExE000, "Little")
        \o (IF item.undef THEN Undefined ELSE EncU32(Len(body), "Little"))
        \o body
        \o (IF item.undef THEN EncItemDelimiter ELSE <<>>)

EncItems(items, ts) ==
    IF items = <<>> THEN <<>> ELSE EncItem(Head(items), ts) \o EncItems(Tail(items), ts)

EncEl(el, ts) ==
    LET endian == ts.endianness
        value == IF el.kind = "seq" THEN EncItems(el.items, ts) \o EncSeqDelimiter
                 ELSE el.bytes
        len == IF el.kind = "seq" THEN Undefined ELSE EncU32(Len(el.bytes), endian)
    IN  EncTag(el.tag, endian)
        \o (IF ~ts.is_vr_explicit THEN len
            ELSE IF el.vr \in SpecialVRs THEN el.vr \o <<0, 0>> \o len
            ELSE el.vr \o EncU16(Len(el.bytes), endian))
        \o value

Zeros(n) == [i \in 1 .. n |-> 0]

EncHeader(hdr) ==
    IF hdr = "good" THEN Zeros(PreambleLen) \o DICM
    ELSE IF hdr = "badmagic" THEN Zeros(PreambleLen) \o <<68, 73, 67, 79>>
    ELSE Zeros(PreambleLen - 1) \o DICM

EncDoc(d) ==
    EncHeader(d.hdr) \o EncEls(d.g2, little_endian_explicit)
    \o EncEls(d.content, d.ts) \o EncEls(d.pixel, d.ts)

\* the transfer syntaxes and the UID each is declared by on the wire
Syntaxes ==
    { little_endian_explicit, little_endian_implicit, big_endian_explicit,
      with_compression_scheme("Jpeg2000Lossless") }

WireUID(ts) ==
    IF ts = big_endian_explicit THEN UID_BigEndianExplicit_Nul
    ELSE IF ts = little_endian_explicit THEN UID_LittleEndianExplicit_Nul
    ELSE IF ts = little_endian_implicit THEN UID_LittleEndianImplicit_Nul
    ELSE UID_Jpeg2000Lossless

\* the same UID with the trailing NUL removed, or added
FlippedUID(ts) ==
    LET u == WireUID(ts)
    IN  IF u[Len(u)] = 0 THEN Take(u, Len(u) - 1) ELSE u \o <<0>>

\* "1.2.840.10008.1.2.4.50", JPEG baseline
UID_Other == UID_1_2 \o <<46, 52, 46, 53, 48>>

VR_UL == <<85, 76>>
VR_UI == <<85, 73>>
VR_US == <<85, 83>>
VR_PN == <<80, 78>>
VR_OB == <<79, 66>>
VR_OW == <<79, 87>>

G2Elements(uid) ==
    <<Leaf(<<2, 0>>, VR_UL, <<30, 0, 0, 0>>)>>
    \o (IF uid = <<>> THEN <<>> ELSE <<Leaf(Tag_x0002x0010, VR_UI, uid)>>)
    \o <<Leaf(<<2, 18>>, VR_UI, <<49, 46, 50, 0>>)>>

PatientName == Leaf(<<16, 16>>, VR_PN, <<65, 94, 66, 32>>)

US(tag, n, ts) == Leaf(tag, VR_US, EncU16(n, ts.endianness))

ImageAttributes(ts, rows, cols, ba, bs) ==
    << US(Tag_x0028x0002, 1, ts), US(Tag_x0028x0010, rows, ts),
       US(Tag_x0028x0011, cols, ts), US(Tag_x0028x0100, ba, ts),
       US(Tag_x0028x0101, bs, ts) >>

\* items of a referenced-image sequence; the first holds an element with the
\* pixel data tag
SomeItems ==
    << AItem(TRUE, <<Leaf(<<8, 4432>>, VR_UI, <<49, 46, 50, 0>>),
                     Leaf(Tag_x7FE0x0010, VR_OB, <<9, 8>>)>>),
       AItem(FALSE, <<Leaf(<<8, 4437>>, VR_UI, <<49, 0>>)>>),
       AItem(TRUE, <<>>) >>

ItemsOf(n) == SubSeq(SomeItems \o SomeItems, 1, n)

PixelBytes(n) == [i \in 1 .. n |-> (17 * i + 3) % 256]

PixelElement(rows, cols, ba) ==
    Leaf(Tag_x7FE0x0010, VR_OW, PixelBytes(rows * cols * (IF ba = 8 THEN 1 ELSE 2)))

Doc(hdr, ts, uid, content, rows, cols, ba, bs, pixel) ==
    [hdr |-> hdr, ts |-> ts, uid |-> uid,
     g2 |-> IF uid = <<0>> THEN <<>> ELSE G2Elements(uid),
     content |-> content,
     pixel |-> IF pixel THEN <<PixelElement(rows, cols, ba)>> ELSE <<>>,
     rows |-> rows, cols |-> cols, ba |-> ba, bs |-> bs]

PlainDoc(ts, rows, cols, ba, bs) ==
    Doc("good", ts, WireUID(ts), <<PatientName>> \o ImageAttributes(ts, rows, cols, ba, bs),
        rows, cols, ba, bs, TRUE)

BitDepths == { <<8, 8>>, <<16, 16>>, <<16, 12>> }

OddBitDepths == { <<12, 12>>, <<16, 0>>, <<16, 20>>, <<8, 6>> }

PlainDocs ==
    { PlainDoc(ts, rows, cols, b[1], b[2]) :
        ts \in Syntaxes, rows \in 0 .. MaxDim, cols \in 0 .. MaxDim,
        b \in BitDepths }

OddDocs ==
    { PlainDoc(ts, 1, 1, b[1], b[2]) : ts \in Syntaxes, b \in OddBitDepths }

SeqDocs ==
    { Doc("good", ts, WireUID(ts),
          <<PatientName, SeqEl(<<8, 4416>>, ItemsOf(n))>>
              \o ImageAttributes(ts, 1, 1, 8, 8),
          1, 1, 8, 8, TRUE) :
        ts \in Syntaxes, n \in 0 .. MaxItems }

\* <<>> for no transfer-syntax element, <<0>> for no group-2 element at all
UidDocs ==
    UNION { { Doc("good", ts, uid, <<PatientName>> \o ImageAttributes(ts, 1, 1, 8, 8),
                  1, 1, 8, 8, TRUE) :
                uid \in {FlippedUID(ts), UID_Other, <<>>, <<0>>} } :
            ts \in Syntaxes }

HeaderDocs ==
    { Doc(hdr, ts, WireUID(ts), <<PatientName>> \o ImageAttributes(ts, 1, 1, 8, 8),
          1, 1, 8, 8, TRUE) :
        hdr \in {"badmagic", "short"}, ts \in Syntaxes }

\* no rows element; no pixel element
LackingDocs ==
    { Doc("good", ts, WireUID(ts),
          <<PatientName, US(Tag_x0028x0002, 1, ts), US(Tag_x0028x0011, 1, ts),
            US(Tag_x0028x0100, 8, ts), US(Tag_x0028x0101, 8, ts)>>,
          1, 1, 8, 8, TRUE) : ts \in Syntaxes }
    \cup
    { Doc("good", ts, WireUID(ts), <<PatientName>> \o ImageAttributes(ts, 1, 1, 8, 8),
          1, 1, 8, 8, FALSE) : ts \in Syntaxes }

Docs == PlainDocs \cup OddDocs \cup SeqDocs \cup UidDocs \cup HeaderDocs \cup LackingDocs

\* the files cut short: every prefix, from CutFrom bytes on, of a small file
CutDocs == { PlainDoc(ts, 1, 1, 16, 16) : ts \in Syntaxes }

Inputs ==
    { [doc |-> d, bytes |-> EncDoc(d)] : d \in Docs }
    \cup
    UNION { { [doc |-> d, bytes |-> Take(EncDoc(d), n)] :
                n \in CutFrom .. Len(EncDoc(d)) - 1 } :
            d \in CutDocs }

(***************************************************************************)
(* Parser::parse_object: one action per arm of the loop's match.  A nom    *)
(* error leaves through `?` as DicomError::ParseError; a panic unwinds.    *)
(* Either way the local obj is dropped and the caller gets no object.      *)
(***************************************************************************)
\* no function applied yet
NoFn == [st |-> "NotApplied", rest |-> <<>>, val |-> <<>>, kind |-> "None"]

\* the error path handing the object built so far to the caller
Fail_with_partial_object(r) ==
    /\ outcome' = (IF r.st = "Panic" THEN "Panic" ELSE "Err")
    /\ error' = (IF r.st = "Panic" THEN r.kind ELSE "ParseError")
    /\ returned' = obj
    /\ obj' = NoObject
    /\ UNCHANGED <<state, current_buf>>

Fail(r) ==
    /\ outcome' = (IF r.st = "Panic" THEN "Panic" ELSE "Err")
    /\ error' = (IF r.st = "Panic" THEN r.kind ELSE "ParseError")
    /\ obj' = NoObject
    /\ UNCHANGED <<state, current_buf, returned>>

Running == outcome = "Running"

Header ==
    /\ Running /\ state = "Header"
    /\ trace' = Append(trace, state)
    /\ \E r \in {parse_header(current_buf)} :
          IF IsOk(r)
          THEN /\ state' = "Group2"
               /\ current_buf' = r.rest
               /\ UNCHANGED <<obj, outcome, error, returned>>
          ELSE Fail(r)
    /\ UNCHANGED <<input, doc, parse_image_flag, overflow_checks, fn_in, fn_out, frames>>

Group2 ==
    /\ Running /\ state = "Group2"
    /\ trace' = Append(trace, state)
    /\ \E r \in {parse_group2(current_buf)} :
          IF IsOk(r)
          THEN /\ obj' = SomeObject(DicomObject_new(r.val.elements, r.val.transfer_syntax))
               /\ state' = "Content"
               /\ current_buf' = r.rest
               /\ UNCHANGED <<outcome, error, returned>>
          ELSE Fail(r)
    /\ UNCHANGED <<input, doc, parse_image_flag, overflow_checks, fn_in, fn_out, frames>>

\* Option::unwrap of obj
unwrap_obj(o) ==
    IF o.some THEN DicomOk(o.o) ELSE Panic("called Option::unwrap() on a None value")

Content ==
    /\ Running /\ state = "Content"
    /\ trace' = Append(trace, state)
    /\ \E r \in {Try(unwrap_obj(obj), LAMBDA o :
                 parse_content(current_buf, o.val.transfer_syntax))} :
          IF IsOk(r)
          THEN /\ obj' = SomeObject(DicomObject_append(obj.o, r.val))
               /\ state' = "Images"
               /\ current_buf' = r.rest
               /\ UNCHANGED <<outcome, error, returned>>
          ELSE Fail(r)
    /\ UNCHANGED <<input, doc, parse_image_flag, overflow_checks, fn_in, fn_out, frames>>

\* the attributes the Images arm unwraps, in the order the code reads them:
\* the first that cannot be read is the panic
ImageAttrs(o) ==
    TryNow(unwrap(try_get_u16(o, Tag_x0028x0010)), LAMBDA rows :
    TryNow(unwrap(try_get_u16(o, Tag_x0028x0011)), LAMBDA cols :
    TryNow(unwrap(try_get_u16(o, Tag_x0028x0002)), LAMBDA samples_per_pixel :
    TryNow(unwrap(try_get_u16(o, Tag_x0028x0101)), LAMBDA bits_stored :
    TryNow(unwrap(try_get_u16(o, Tag_x0028x0100)), LAMBDA bits_allocated :
    DicomOk([rows |-> rows.val, cols |-> cols.val, bits_stored |-> bits_stored.val,
             bits_allocated |-> bits_allocated.val]))))))

\* the Images arm decoding the pixels and not storing them
images_arm_no_image(cur_buf, o) ==
    TryNow(ImageAttrs(o), LAMBDA a :
    TryNow(parse_image(cur_buf, o.transfer_syntax, a.val.rows, a.val.cols,
                    a.val.bits_allocated, a.val.bits_stored), LAMBDA image :
    Ok(image.rest, o)))

\* the Images arm when parse_image is set
images_arm(cur_buf, o) ==
    TryNow(ImageAttrs(o), LAMBDA a :
    TryNow(parse_image(cur_buf, o.transfer_syntax, a.val.rows, a.val.cols,
                    a.val.bits_allocated, a.val.bits_stored), LAMBDA image :
    Ok(image.rest, [o EXCEPT !.image = image.val])))

Images ==
    /\ Running /\ state = "Images"
    /\ trace' = Append(trace, state)
    /\ IF parse_image_flag
       THEN \E r \in {Try(unwrap_obj(obj), LAMBDA o : images_arm(current_buf, o.val))} :
               IF IsOk(r)
               THEN /\ obj' = SomeObject(r.val)
                    /\ state' = "Finished"
                    /\ current_buf' = r.rest
                    /\ UNCHANGED <<outcome, error, returned>>
               ELSE Fail(r)
       ELSE /\ state' = "Finished"
            /\ current_buf' = input
            /\ UNCHANGED <<obj, outcome, error, returned>>
    /\ UNCHANGED <<input, doc, parse_image_flag, overflow_checks, fn_in, fn_out, frames>>

\* `ParserState::Finished => break`, then `Ok(obj.unwrap())`
Finished ==
    /\ Running /\ state = "Finished"
    /\ trace' = Append(trace, state)
    /\ \E r \in {unwrap_obj(obj)} :
          IF IsOk(r)
          THEN /\ outcome' = "Ok"
               /\ returned' = obj
               /\ obj' = NoObject
               /\ UNCHANGED <<state, current_buf, error>>
          ELSE Fail(r)
    /\ UNCHANGED <<input, doc, parse_image_flag, overflow_checks, fn_in, fn_out, frames>>

Init ==
    /\ \E i \in Inputs : input = i.bytes /\ doc = i.doc
    /\ parse_image_flag \in BOOLEAN
    /\ overflow_checks \in BOOLEAN
    /\ state = "Header"
    /\ current_buf = input
    /\ obj = NoObject
    /\ outcome = "Running"
    /\ error = "None"
    /\ returned = NoObject
    /\ trace = <<>>
    /\ frames = <<>>
    /\ fn_in = NoFn
    /\ fn_out = NoFn

Next == Header \/ Group2 \/ Content \/ Images \/ Finished

Spec == Init /\ [][Next]_vars

(***************************************************************************)
(* TransferSyntax::try_from on its own: the value is drawn from the UIDs   *)
(* of the table, their prefixes, each with and without a trailing NUL,     *)
(* with two, with a trailing space, bytes that are UTF-8 but not ASCII,    *)
(* bytes that are no UTF-8, and a sequence value.                          *)
(***************************************************************************)
\* "1.2.840.10008.1.2.1", "1.2.840.10008.1.2.2", without the padding
UID_LittleEndianExplicit == UID_1_2 \o <<46, 49>>
UID_BigEndianExplicit == UID_1_2 \o <<46, 50>>

UidBases ==
    { UID_1_2, UID_LittleEndianExplicit, UID_BigEndianExplicit, UID_Jpeg2000Lossless,
      UID_Other }

UidStrings ==
    UNION { { Take(u, n) : n \in 0 .. Len(u) } : u \in UidBases }

TryFromBytes ==
    UidStrings
    \cup { u \o <<0>> : u \in UidStrings }
    \cup { u \o <<0, 0>> : u \in UidBases }
    \cup { u \o <<32>> : u \in UidBases }
    \cup { <<255>>, <<49, 200>>, <<49, 46, 50, 192, 128>>, <<195, 169>>,
           UID_1_2 \o <<195, 169>> }

TryFromInputs == { Value_Buf(b) : b \in TryFromBytes } \cup { Value_Sequence(<<>>) }

\* the driver's variables while a function is applied on its own
DriverIdle ==
    /\ input = <<>> /\ doc = <<>>
    /\ parse_image_flag = TRUE
    /\ overflow_checks = TRUE
    /\ state = "Header"
    /\ current_buf = <<>>
    /\ obj = NoObject
    /\ outcome = "Idle"
    /\ error = "None"
    /\ returned = NoObject
    /\ trace = <<>>
    /\ frames = <<>>

InitTryFrom == DriverIdle /\ fn_in \in TryFromInputs /\ fn_out = NoFn

ApplyTryFrom ==
    /\ fn_out.st = "NotApplied"
    /\ fn_out' = TransferSyntax_try_from(fn_in)
    /\ UNCHANGED <<input, doc, parse_image_flag, overflow_checks, state, current_buf,
                   obj, outcome, error, returned, trace, fn_in, frames>>

NextTryFrom == ApplyTryFrom

SpecTryFrom == InitTryFrom /\ [][NextTryFrom]_vars

(***************************************************************************)
(* parse_length on its own: the buffer is a prefix of one of three byte    *)
(* patterns, the VR is absent or any two letters of a small alphabet that  *)
(* holds every code of the table, the endianness is either.                *)
(***************************************************************************)
MaxBuf == 7

LengthPatterns ==
    { [i \in 1 .. MaxBuf |-> i], [i \in 1 .. MaxBuf |-> 255],
      [i \in 1 .. MaxBuf |-> (200 + 9 * i) % 256] }

LengthBufs == UNION { { Take(p, n) : n \in 0 .. MaxBuf } : p \in LengthPatterns }

\* letters of the VR codes, one lower-case letter, one letter of no code
LengthLetters ==
    { c[1] : c \in KnownVRs } \cup { c[2] : c \in KnownVRs } \cup { 111, 90 }

LengthVRs ==
    { NoneVR }
    \cup { SomeVR(ValueRepresentation_from_chars(a, b)) : a, b \in LengthLetters }

InitLength ==
    /\ DriverIdle
    /\ fn_in \in [buf : LengthBufs, vr : LengthVRs, endian : {"Little", "Big"}]
    /\ fn_out = NoFn

ApplyParseLength ==
    /\ fn_out.st = "NotApplied"
    /\ fn_out' = parse_length(fn_in.buf, fn_in.vr, fn_in.endian)
    /\ UNCHANGED <<input, doc, parse_image_flag, overflow_checks, state, current_buf,
                   obj, outcome, error, returned, trace, fn_in, frames>>

NextLength == ApplyParseLength

SpecLength == InitLength /\ [][NextLength]_vars

(***************************************************************************)
(* What the file says, read off the abstract file: the elements a correct  *)
(* reader yields for a list of abstract elements under a transfer syntax.  *)
(***************************************************************************)
ExpVR(vr, ts) ==
    IF ts.is_vr_explicit THEN SomeVR(ValueRepresentation_from_chars(vr[1], vr[2]))
    ELSE NoneVR

RECURSIVE ExpEl(_, _)
RECURSIVE ExpEls(_, _)
RECURSIVE ExpItems(_, _)

ExpEls(els, ts) ==
    IF els = <<>> THEN <<>> ELSE <<ExpEl(Head(els), ts)>> \o ExpEls(Tail(els), ts)

ExpItems(items, ts) ==
    IF items = <<>> THEN <<>>
    ELSE <<Item(ExpEls(Head(items).els, ts))>> \o ExpItems(Tail(items), ts)

ExpEl(el, ts) ==
    IF el.kind = "seq"
    THEN DataElement(el.tag, ExpVR(el.vr, ts), U32_MAX,
                     Value_Sequence(ExpItems(el.items, ts)))
    ELSE DataElement(el.tag, ExpVR(el.vr, ts), U32(0, Len(el.bytes)),
                     Value_Buf(el.bytes))

\* the group-2 elements, then the content elements, of the file
ExpElements ==
    ExpEls(doc.g2, little_endian_explicit) \o ExpEls(doc.content, doc.ts)

\* the number of bytes of the file before its pixel element
PixelTagOffset ==
    Len(EncHeader(doc.hdr)) + Len(EncEls(doc.g2, little_endian_explicit))
    + Len(EncEls(doc.content, doc.ts))

\* the input holds the whole tag of a top-level pixel element
PixelTagInInput == doc.pixel # <<>> /\ PixelTagOffset + 4 <= Len(input)

PhaseOrder == <<"Header", "Group2", "Content", "Images", "Finished">>

\* C1: parse_object handles its phases in the order Header, Group2, Content,
\* Images, Finished, each at most once and never backwards (the phases handled
\* so far are a prefix of that order and the current phase is the last handled
\* or the one after it); Group2 is entered only with the 128 preamble bytes and
\* the bytes "DICM" consumed; an object is returned only once all five phases
\* were handled, Finished last.
C1_PhasesInOrder ==
    /\ \E n \in 0 .. Len(PhaseOrder) : trace = Take(PhaseOrder, n)
    /\ \E n \in 1 .. Len(PhaseOrder) :
          state = PhaseOrder[n] /\ n \in {Len(trace), Len(trace) + 1}
    /\ state # "Header" =>
          /\ Len(input) >= PreambleLen + 4
          /\ SubSeq(input, PreambleLen + 1, PreambleLen + 4) = <<68, 73, 67, 77>>
    /\ state = "Group2" => current_buf = Drop(input, PreambleLen + 4)
    /\ returned.some => (outcome = "Ok" /\ state = "Finished" /\ trace = PhaseOrder)

C1_Witness ==
    /\ outcome = "Ok" /\ returned.some /\ trace = PhaseOrder /\ parse_image_flag

\* C2: parse_object never ends by a panic (a failed assertion, an unwrap or
\* expect on an absent value, an integer underflow), whatever the input.
C2_NeverPanics == outcome # "Panic"

\* C3: when a phase's parser returns an error the call ends with Err in that
\* phase: the failing phase is the last one handled, Finished is not reached,
\* the error is the ParseError the nom error converts to, the partially built
\* object is dropped and nothing is returned.
C3_ErrorIsTerminal ==
    outcome = "Err" =>
        /\ Len(trace) >= 1 /\ state = trace[Len(trace)]
        /\ state # "Finished"
        /\ error = "ParseError"
        /\ obj = NoObject
        /\ ~returned.some

C3_Witness == outcome = "Err" /\ state = "Content" /\ Len(doc.g2) = 3

\* C4: when (0002,0010) holds a UID outside the supported set, the call ends
\* by returning the TransferSyntaxNotSupported error.
C4_UnsupportedUidIsError ==
    (doc.hdr = "good" /\ doc.uid = UID_Other /\ Len(input) = Len(EncDoc(doc))
     /\ outcome # "Running")
        => (outcome = "Err" /\ error = "TransferSyntaxNotSupported")

\* the triple the table gives for a UID written without padding
TableTriple(uid) ==
    IF uid = UID_1_2 THEN little_endian_implicit
    ELSE IF uid = UID_LittleEndianExplicit THEN little_endian_explicit
    ELSE IF uid = UID_BigEndianExplicit THEN big_endian_explicit
    ELSE with_compression_scheme("Jpeg2000Lossless")

SupportedUids ==
    { UID_1_2, UID_LittleEndianExplicit, UID_BigEndianExplicit, UID_Jpeg2000Lossless }

\* C5 as stated: try_from maps each of the four supported UIDs, with and
\* without one trailing NUL byte, to its triple.
C5_BothFormsAccepted ==
    \A uid \in SupportedUids :
        (fn_out.st # "NotApplied" /\ fn_in.kind = "Buf"
         /\ fn_in.bytes \in {uid, uid \o <<0>>})
            => (fn_out.st = "Ok" /\ fn_out.val = TableTriple(uid))

\* the one form of each supported UID that try_from matches: the UIDs of odd
\* length with their NUL padding, the UID of even length without
MatchedForm(uid) == IF Len(uid) % 2 = 1 THEN uid \o <<0>> ELSE uid

\* C5: try_from maps each supported UID to its triple in exactly one form, the
\* even-length one (1.2.840.10008.1.2, .1.2.1 and .1.2.2 followed by one NUL,
\* .1.2.4.90 with none); every other byte string is an error, which for ASCII
\* bytes, the other form of each supported UID included, is
\* TransferSyntaxNotSupported; a sequence value is ConvertTypeExpectBuf.
C5_OneFormAccepted ==
    fn_out.st # "NotApplied" =>
        /\ \A uid \in SupportedUids :
              (fn_in.kind = "Buf" /\ fn_in.bytes = MatchedForm(uid))
                  => (fn_out.st = "Ok" /\ fn_out.val = TableTriple(uid))
        /\ (fn_in.kind = "Buf" /\ fn_in.bytes \notin {MatchedForm(uid) : uid \in SupportedUids})
              => /\ fn_out.st = "Err"
                 /\ (\A i \in 1 .. Len(fn_in.bytes) : fn_in.bytes[i] < 128)
                       => (fn_out.kind = "TransferSyntaxNotSupported")
        /\ fn_in.kind # "Buf" => (fn_out.st = "Err" /\ fn_out.kind = "ConvertTypeExpectBuf")

C5_Witness ==
    /\ fn_out.st = "Err" /\ fn_out.kind = "TransferSyntaxNotSupported"
    /\ fn_in.kind = "Buf" /\ fn_in.bytes = UID_Jpeg2000Lossless \o <<0>>

\* C6: when the first element after the header is not of group 2, the call
\* ends by returning the ExpectedGroup2 error.
C6_ExpectedGroup2 ==
    (doc.hdr = "good" /\ doc.g2 = <<>> /\ Len(input) = Len(EncDoc(doc))
     /\ outcome # "Running")
        => (outcome = "Err" /\ error = "ExpectedGroup2")

\* C7: the element list of a returned object is the group-2 elements of the
\* file in input order, read as little-endian explicit VR, followed by the
\* content elements in input order, read under the declared transfer syntax;
\* none is dropped, added or reordered, and the object carries that syntax.
C7_Group2ThenContent ==
    returned.some =>
        /\ returned.o.elements = ExpElements
        /\ returned.o.transfer_syntax = doc.ts
        /\ \A i \in 1 .. Len(returned.o.elements) :
              (get_group(returned.o.elements[i].tag) = 2) <=> (i <= Len(doc.g2))

C7_Witness ==
    /\ returned.some /\ doc.ts = big_endian_explicit
    /\ Len(doc.g2) = 3 /\ Len(returned.o.elements) = 9

\* C8: the Content phase ends exactly at the first top-level pixel data tag:
\* once it is over, the input holds that tag, encoded in the active
\* endianness, right after the content elements, the object holds every
\* top-level element before it, in order, and no top-level pixel element, and
\* the Images phase starts on the tag; a pixel tag inside a sequence item does
\* not end the phase (the sequence is among the elements, whole); an input
\* without a top-level pixel tag yields no object.
C8_ContentEndsAtPixelTag ==
    /\ (Len(trace) >= 3 /\ state # "Content") =>
          /\ PixelTagInInput
          /\ SubSeq(input, PixelTagOffset + 1, PixelTagOffset + 4)
                = EncTag(Tag_x7FE0x0010, doc.ts.endianness)
          /\ obj.some =>
                /\ obj.o.elements = ExpElements
                /\ \A i \in 1 .. Len(obj.o.elements) :
                      obj.o.elements[i].tag # Tag_x7FE0x0010
          /\ (state = "Images" /\ Len(trace) = 3) =>
                current_buf = Drop(input, PixelTagOffset)
    /\ ~PixelTagInInput => ~returned.some

\* a sequence whose first item holds an element with the pixel data tag was
\* read whole and the elements after it follow
C8_Witness ==
    /\ state = "Images" /\ obj.some
    /\ \E i \in 1 .. Len(obj.o.elements) - 1 :
          /\ obj.o.elements[i].data.kind = "Sequence"
          /\ Len(obj.o.elements[i].data.items) >= 1
          /\ \E j \in 1 .. Len(obj.o.elements[i].data.items[1].elements) :
                obj.o.elements[i].data.items[1].elements[j].tag = Tag_x7FE0x0010

\* C9: a returned object has an image exactly when parse_image is set; when
\* it is not set the Images phase reads nothing and cannot fail, so whatever
\* follows the pixel data tag, the elements before it are what is returned.
C9_ImageIffParseImage ==
    /\ returned.some => ((returned.o.image.kind # "None") <=> parse_image_flag)
    /\ (~parse_image_flag /\ Len(trace) >= 4) =>
          /\ outcome \in {"Running", "Ok"}
          /\ obj.some => (obj.o.image = NoImage /\ obj.o.elements = ExpElements)
          /\ returned.some => returned.o.elements = ExpElements

\* without parse_image, a file cut inside its pixel data is returned
C9_Witness ==
    /\ returned.some /\ ~parse_image_flag
    /\ PixelTagOffset + 4 <= Len(input) /\ Len(input) < Len(EncDoc(doc))

\* the u32 of four bytes, as its two halves
DecodeU32(b, endian) ==
    IF endian = "Little" THEN [hi |-> b[3] + 256 * b[4], lo |-> b[1] + 256 * b[2]]
    ELSE [hi |-> 256 * b[1] + b[2], lo |-> 256 * b[3] + b[4]]

\* the VR codes with the long length field
LongLengthCodes == {"OB", "OD", "OF", "OL", "OV", "OW", "SQ", "SV", "UC", "UR", "UT", "UN", "UV"}

Ascii(n) ==
    CASE n = 66 -> "B" [] n = 67 -> "C" [] n = 68 -> "D" [] n = 70 -> "F"
      [] n = 76 -> "L" [] n = 78 -> "N" [] n = 79 -> "O" [] n = 81 -> "Q"
      [] n = 82 -> "R" [] n = 83 -> "S" [] n = 84 -> "T" [] n = 85 -> "U"
      [] n = 86 -> "V" [] n = 87 -> "W" [] OTHER -> "?"

\* C10: parse_length, given enough bytes: with no VR it consumes 4 bytes, the
\* length; with a VR of OB, OD, OF, OL, OV, OW, SQ, SV, UC, UR, UT, UN, UV it
\* consumes 6 bytes and the length is the last 4 of them; with any other VR,
\* a code of no VR included, it consumes 2 bytes, the length; each is decoded
\* in the given endianness.  With fewer bytes it is Incomplete.
C10_ParseLengthCases ==
    fn_out.st # "NotApplied" =>
        LET n == IF ~fn_in.vr.some THEN 4
                 ELSE IF Ascii(fn_in.vr.chars[1]) \o Ascii(fn_in.vr.chars[2])
                            \in LongLengthCodes THEN 6
                 ELSE 2
            b == fn_in.buf
        IN  IF Len(b) < n THEN fn_out.st = "Err" /\ fn_out.kind = "Incomplete"
            ELSE /\ fn_out.st = "Ok"
                 /\ fn_out.rest = Drop(b, n)
                 /\ fn_out.val =
                       IF n = 2
                       THEN DecodeU32(IF fn_in.endian = "Little" THEN <<b[1], b[2], 0, 0>>
                                      ELSE <<0, 0, b[1], b[2]>>, fn_in.endian)
                       ELSE DecodeU32(SubSeq(b, n - 3, n), fn_in.endian)

\* a code of no VR ("ZZ"), big endian: two bytes
C10_Witness ==
    /\ fn_out.st = "Ok" /\ fn_in.vr.some /\ fn_in.vr.chars = <<90, 90>>
    /\ fn_in.endian = "Big" /\ Len(fn_in.buf) = MaxBuf
    /\ Len(fn_out.rest) = MaxBuf - 2

(***************************************************************************)
(* parse_vr on its own: every buffer of up to MaxVrBuf bytes over letters  *)
(* of both cases, the characters next to the letters in ASCII, a digit and *)
(* a zero byte.                                                            *)
(***************************************************************************)
MaxVrBuf == 3

\* "U" "L" "Z" "A" "u" "l" "a" "z", then "@" "[" "`" "{" "1" and NUL
VrBytes == {85, 76, 90, 65, 117, 108, 97, 122, 64, 91, 96, 123, 49, 0}

VrBufs == UNION { [1 .. n -> VrBytes] : n \in 0 .. MaxVrBuf }

InitVr == DriverIdle /\ fn_in \in VrBufs /\ fn_out = NoFn

ApplyParseVr ==
    /\ fn_out.st = "NotApplied"
    /\ fn_out' = parse_vr(fn_in)
    /\ UNCHANGED <<input, doc, parse_image_flag, overflow_checks, state, current_buf,
                   obj, outcome, error, returned, trace, fn_in, frames>>

NextVr == ApplyParseVr

SpecVr == InitVr /\ [][NextVr]_vars

\* an ASCII letter of either case
IsLetter(b) == (65 <= b /\ b <= 90) \/ (97 <= b /\ b <= 122)

\* C11: parse_vr succeeds exactly when the next two bytes are both ASCII
\* letters of either case; it then consumes exactly those 2 bytes and returns
\* the VR of the table when the two characters are one of its upper-case codes
\* and Unknown(the two characters) otherwise; when either byte is no letter it
\* fails, and with fewer than the bytes it needs it is Incomplete.
C11_ParseVr ==
    fn_out.st # "NotApplied" =>
        /\ (fn_out.st = "Ok") <=>
              (Len(fn_in) >= 2 /\ IsLetter(fn_in[1]) /\ IsLetter(fn_in[2]))
        /\ fn_out.st = "Ok" =>
              /\ fn_out.rest = Drop(fn_in, 2)
              /\ fn_out.val.chars = <<fn_in[1], fn_in[2]>>
              /\ fn_out.val.known <=> (<<fn_in[1], fn_in[2]>> \in KnownVRs)
        /\ fn_out.st # "Ok" =>
              /\ fn_out.st = "Err"
              /\ (fn_out.kind = "Incomplete") <=>
                    (Len(fn_in) = 0 \/ (Len(fn_in) = 1 /\ IsLetter(fn_in[1])))

\* "ul" and a digit: Unknown("ul"), one byte left
C11_Witness ==
    /\ fn_out.st = "Ok" /\ fn_in = <<117, 108, 49>>
    /\ ~fn_out.val.known /\ fn_out.val.chars = <<117, 108>> /\ Len(fn_out.rest) = 1

(***************************************************************************)
(* parse_dataelement on its own.  The buffer is the encoding of an         *)
(* abstract element (a leaf of 0..MaxValueLen bytes, a sequence of         *)
(* 0..MaxSeqItems items, sequences nested 1..MaxNest deep) under a         *)
(* transfer syntax, followed by a tail; or that encoding cut short; or a   *)
(* sequence with a data element where an item is expected; or a sequence   *)
(* under big endian whose item start tag is written big endian; or items   *)
(* and a sequence delimiter after an undefined length and the VR OB or UN; *)
(* or sequences nested DeepNesting deep.                                   *)
(***************************************************************************)
MaxValueLen == 3
MaxSeqItems == 3
MaxNest == 2
DeepNesting == 5

ElLeaves ==
    { Leaf(tag, vr, PixelBytes(n)) :
        tag \in { <<16, 16>>, <<8, 24>>, Tag_x7FE0x0010, <<9, 4097>> },
        vr \in { VR_PN, VR_OB, VR_US, <<83, 81>>, <<90, 90>>, <<117, 108>> },
        n \in 0 .. MaxValueLen }

\* a sequence holding one item holding a sequence ... d deep, a leaf innermost
RECURSIVE NestedSeq(_)
NestedSeq(d) ==
    IF d = 0 THEN PatientName
    ELSE SeqEl(<<8, 4416>>, <<AItem(TRUE, <<NestedSeq(d - 1)>>)>>)

ElSeqs ==
    { SeqEl(<<8, 4416>>, ItemsOf(n)) : n \in 0 .. MaxSeqItems }
    \cup { NestedSeq(d) : d \in 1 .. MaxNest }

ElTails == { <<>>, <<7, 0, 9>>, EncSeqDelimiter }

\* the bytes of a sequence element up to its value
SeqOpen(tag, ts) ==
    Take(EncEl(SeqEl(tag, <<>>), ts), Len(EncEl(SeqEl(tag, <<>>), ts)) - Len(EncSeqDelimiter))

ElInput(kind, el, ts, tail, buf) ==
    [kind |-> kind, el |-> el, ts |-> ts, tail |-> tail, buf |-> buf]

ElementInputs ==
    { ElInput("el", e, ts, tail, EncEl(e, ts) \o tail) :
        e \in ElLeaves \cup ElSeqs, ts \in Syntaxes, tail \in ElTails }
    \cup
    UNION { { ElInput("cut", c[1], c[2], <<>>, Take(EncEl(c[1], c[2]), n)) :
                n \in 0 .. Len(EncEl(c[1], c[2])) - 1 } :
            c \in { PatientName, SeqEl(<<8, 4416>>, ItemsOf(2)) } \X Syntaxes }
    \cup
    { ElInput("stray", SeqEl(<<8, 4416>>, ItemsOf(n)), ts, tail,
              SeqOpen(<<8, 4416>>, ts) \o EncItems(ItemsOf(n), ts)
                  \o EncEl(PatientName, ts) \o EncSeqDelimiter \o tail) :
        n \in 0 .. MaxSeqItems, ts \in Syntaxes, tail \in ElTails }
    \cup
    { ElInput("bigstart", SeqEl(<<8, 4416>>, <<AItem(TRUE, <<PatientName>>)>>),
              big_endian_explicit, tail,
              SeqOpen(<<8, 4416>>, big_endian_explicit)
                  \o EncTag(Tag_xFFFExE000, "Big") \o Undefined
                  \o EncEl(PatientName, big_endian_explicit) \o EncItemDelimiter
                  \o EncSeqDelimiter \o tail) :
        tail \in ElTails }
    \cup
    { ElInput("undefvr", [SeqEl(<<8, 4416>>, ItemsOf(n)) EXCEPT !.vr = vr], ts, tail,
              EncEl([SeqEl(<<8, 4416>>, ItemsOf(n)) EXCEPT !.vr = vr], ts) \o tail) :
        n \in 0 .. MaxSeqItems, vr \in { VR_OB, <<85, 78>> }, ts \in Syntaxes,
        tail \in ElTails }
    \cup
    { ElInput("deep", NestedSeq(DeepNesting), ts, <<>>, EncEl(NestedSeq(DeepNesting), ts)) :
        ts \in { little_endian_explicit, little_endian_implicit } }

InitElement == DriverIdle /\ fn_in \in ElementInputs /\ fn_out = NoFn

ApplyParseDataElement ==
    /\ fn_out.st = "NotApplied"
    /\ fn_out' = parse_dataelement(fn_in.buf, fn_in.ts)
    /\ UNCHANGED <<input, doc, parse_image_flag, overflow_checks, state, current_buf,
                   obj, outcome, error, returned, trace, fn_in, frames>>

NextElement == ApplyParseDataElement

SpecElement == InitElement /\ [][NextElement]_vars

\* the number of bytes of an element before its value: tag, VR if explicit,
\* padding if the VR has the long length, length
HeaderLen(el, ts) ==
    IF ~ts.is_vr_explicit THEN 8 ELSE IF el.vr \in SpecialVRs THEN 12 ELSE 8

(***************************************************************************)
(* parse_item on its own, with and without the overflow checks of the      *)
(* build.  The buffer is an item start tag and a length, both written      *)
(* under the endianness parse_item reads them with (the active one), the   *)
(* encoded elements, the item delimiter if the length is undefined, and a  *)
(* tail.  Kinds: "undef" undefined length; "def" the length is the span of *)
(* the elements; "overrun" the length is 1..MaxShort bytes less than that  *)
(* span, so that the last element passes the budget; "nodelim" undefined   *)
(* length and no delimiter; "lestart" under big endian with the start tag  *)
(* written little endian.                                                  *)
(***************************************************************************)
MaxShort == 3

ItemElementLists(ts) ==
    { <<>>,
      <<PatientName>>,
      <<PatientName, Leaf(<<8, 24>>, VR_OB, PixelBytes(3))>>,
      <<Leaf(<<8, 24>>, VR_OB, EncItemDelimiter), PatientName>>,
      <<SeqEl(<<8, 4416>>, <<>>), PatientName>> }
    \cup (IF ts.endianness = "Little"
          THEN { <<NestedSeq(1)>>, <<PatientName, SeqEl(<<8, 4416>>, ItemsOf(2))>> }
          ELSE {})

ItemTails(ts) == { <<>>, <<7, 0, 9>>, EncItemDelimiter, EncEl(PatientName, ts) }

ItemBuf(endian, length, els, ts, close) ==
    EncTag(Tag_xFFFExE000, endian) \o length \o EncEls(els, ts) \o close

ItemInput(kind, els, ts, tail, buf) ==
    [kind |-> kind, els |-> els, ts |-> ts, tail |-> tail, buf |-> buf]

ItemInputsOf(ts) ==
    LET endian == ts.endianness
        span(els) == Len(EncEls(els, ts))
    IN  { ItemInput("undef", els, ts, tail,
                    ItemBuf(endian, Undefined, els, ts, EncItemDelimiter) \o tail) :
            els \in ItemElementLists(ts), tail \in ItemTails(ts) }
        \cup
        { ItemInput("def", els, ts, tail,
                    ItemBuf(endian, EncU32(span(els), endian), els, ts, <<>>) \o tail) :
            els \in ItemElementLists(ts), tail \in ItemTails(ts) }
        \cup
        UNION { { ItemInput("overrun", els, ts, tail,
                      ItemBuf(endian, EncU32(span(els) - k, endian), els, ts, <<>>)
                      \o tail) :
                    k \in 1 .. MaxShort, tail \in ItemTails(ts) } :
                els \in { <<PatientName>>,
                          <<PatientName, Leaf(<<8, 24>>, VR_OB, PixelBytes(3))>> } }
        \cup
        { ItemInput("nodelim", els, ts, <<>>, ItemBuf(endian, Undefined, els, ts, <<>>)) :
            els \in ItemElementLists(ts) }
        \cup
        (IF endian = "Big"
         THEN { ItemInput("lestart", els, ts, tail,
                    ItemBuf("Little", Undefined, els, ts, EncItemDelimiter) \o tail) :
                  els \in ItemElementLists(ts), tail \in ItemTails(ts) }
         ELSE {})

ItemInputs == UNION { ItemInputsOf(ts) : ts \in Syntaxes }

InitItem ==
    /\ input = <<>> /\ doc = <<>>
    /\ parse_image_flag = TRUE
    /\ overflow_checks \in BOOLEAN
    /\ state = "Header"
    /\ current_buf = <<>>
    /\ obj = NoObject
    /\ outcome = "Idle"
    /\ error = "None"
    /\ returned = NoObject
    /\ trace = <<>>
    /\ frames = <<>>
    /\ fn_in \in ItemInputs
    /\ fn_out = NoFn

ApplyParseItem ==
    /\ fn_out.st = "NotApplied"
    /\ fn_out' = parse_item(fn_in.buf, fn_in.ts)
    /\ UNCHANGED <<input, doc, parse_image_flag, overflow_checks, state, current_buf,
                   obj, outcome, error, returned, trace, fn_in, frames>>

NextItem == ApplyParseItem

SpecItem == InitItem /\ [][NextItem]_vars

\* the bytes of an item before its elements: start tag and length
ItemHeaderLen == 8

(***************************************************************************)
(* parse_image on its own.  The buffer is the pixel data element: the tag  *)
(* (7FE0,0010), the VR OB or OW if the syntax is explicit, a length, the   *)
(* payload, and a tail.  Kinds: "raw" uncompressed samples, rows * columns *)
(* of them, of one byte (bits_allocated 8) or two; "short" the same with   *)
(* the last byte missing; "jp2" under JPEG2000 lossless, a payload of      *)
(* 0..MaxJp2Len bytes with the length undefined or that of the payload,    *)
(* and any rows, columns and bit depths, unsupported ones included.        *)
(***************************************************************************)
MaxImgDim == 3
MaxJp2Len == 4

\* (bits_allocated, bits_stored)
ImgBitDepths == { <<8, 8>>, <<8, 6>>, <<16, 16>>, <<16, 12>> }

ImgTails == { <<>>, <<7, 0, 9>> }

PixelHeader(vr, length, ts) ==
    EncTag(Tag_x7FE0x0010, ts.endianness)
    \o (IF ts.is_vr_explicit THEN vr \o <<0, 0>> ELSE <<>>)
    \o length

ImgInput(kind, ts, rows, columns, depth, payload, tail, header) ==
    [kind |-> kind, ts |-> ts, rows |-> rows, columns |-> columns,
     bits_allocated |-> depth[1], bits_stored |-> depth[2],
     payload |-> payload, tail |-> tail, header |-> header,
     buf |-> header \o payload \o tail]

RawInputs ==
    { ImgInput("raw", ts, rows, columns, depth,
               PixelBytes(rows * columns * (depth[1] \div 8)), tail,
               PixelHeader(vr, EncU32(rows * columns * (depth[1] \div 8), ts.endianness), ts)) :
        ts \in Syntaxes \ { with_compression_scheme("Jpeg2000Lossless") },
        rows \in 0 .. MaxImgDim, columns \in 0 .. MaxImgDim, depth \in ImgBitDepths,
        tail \in ImgTails, vr \in { VR_OW } }

ShortInputs ==
    { ImgInput("short", ts, MaxImgDim, 2, depth,
               PixelBytes(MaxImgDim * 2 * (depth[1] \div 8) - 1), <<>>,
               PixelHeader(VR_OW, EncU32(MaxImgDim * 2 * (depth[1] \div 8), ts.endianness), ts)) :
        ts \in Syntaxes \ { with_compression_scheme("Jpeg2000Lossless") },
        depth \in ImgBitDepths }

Jp2Inputs ==
    { ImgInput("jp2", with_compression_scheme("Jpeg2000Lossless"), d[1], d[2], depth,
               PixelBytes(n), tail,
               PixelHeader(VR_OB, IF undef THEN Undefined ELSE EncU32(n, "Little"),
                           with_compression_scheme("Jpeg2000Lossless"))) :
        d \in { <<0, 0>>, <<1, 2>>, <<MaxImgDim, MaxImgDim>>, <<512, 512>> },
        depth \in ImgBitDepths \cup { <<12, 12>>, <<0, 0>> },
        n \in 0 .. MaxJp2Len, tail \in ImgTails, undef \in BOOLEAN }

ImageInputs == RawInputs \cup ShortInputs \cup Jp2Inputs

InitImage == DriverIdle /\ fn_in \in ImageInputs /\ fn_out = NoFn

ApplyParseImage ==
    /\ fn_out.st = "NotApplied"
    /\ fn_out' = parse_image(fn_in.buf, fn_in.ts, fn_in.rows, fn_in.columns,
                             fn_in.bits_allocated, fn_in.bits_stored)
    /\ UNCHANGED <<input, doc, parse_image_flag, overflow_checks, state, current_buf,
                   obj, outcome, error, returned, trace, fn_in, frames>>

NextImage == ApplyParseImage

SpecImage == InitImage /\ [][NextImage]_vars

\* raw sample number k (from 0) of the payload of fn_in
RawSample(k) ==
    IF fn_in.bits_allocated = 8 THEN fn_in.payload[k + 1]
    ELSE IF fn_in.ts.endianness = "Little"
    THEN fn_in.payload[2 * k + 1] + 256 * fn_in.payload[2 * k + 2]
    ELSE 256 * fn_in.payload[2 * k + 1] + fn_in.payload[2 * k + 2]

(***************************************************************************)
(* parse_img_u16 on its own, on an image of one row and two columns, with  *)
(* and without the overflow checks of the build: the buffer is two 16-bit  *)
(* samples a and b in the given endianness; bits_allocated is 16 and       *)
(* bits_stored is 0..MaxStored.  The samples are the MaxLow + 1 lowest,    *)
(* the MaxLow + 1 highest, and around every power of two.                  *)
(***************************************************************************)
MaxLow == 3
MaxStored == 17

Samples ==
    (0 .. MaxLow) \cup { U16Max - i : i \in 0 .. MaxLow }
    \cup UNION { { Pow2(k) - 1, Pow2(k) } : k \in 1 .. 15 }

RescaleInputs ==
    { [a |-> a, b |-> b, endian |-> endian, bits_allocated |-> 16, bits_stored |-> bs,
       buf |-> EncU16(a, endian) \o EncU16(b, endian)] :
        a \in Samples, b \in Samples, endian \in { "Little", "Big" },
        bs \in 0 .. MaxStored }

InitRescale ==
    /\ input = <<>> /\ doc = <<>>
    /\ parse_image_flag = TRUE
    /\ overflow_checks \in BOOLEAN
    /\ state = "Header"
    /\ current_buf = <<>>
    /\ obj = NoObject
    /\ outcome = "Idle"
    /\ error = "None"
    /\ returned = NoObject
    /\ trace = <<>>
    /\ frames = <<>>
    /\ fn_in \in RescaleInputs
    /\ fn_out = NoFn

ApplyParseImgU16 ==
    /\ fn_out.st = "NotApplied"
    /\ fn_out' = parse_img_u16(fn_in.buf, fn_in.endian, 1, 2, fn_in.bits_allocated,
                               fn_in.bits_stored)
    /\ UNCHANGED <<input, doc, parse_image_flag, overflow_checks, state, current_buf,
                   obj, outcome, error, returned, trace, fn_in, frames>>

NextRescale == ApplyParseImgU16

SpecRescale == InitRescale /\ [][NextRescale]_vars

\* (v << diff) | (((v << diff) & mask) >> bits_stored) on 16 bits, with
\* diff = 16 - bits_stored and mask = ((1 << diff) - 1) << bits_stored
RescaleFormula(v, bits_stored) ==
    LET diff == 16 - bits_stored
        mask == ((Pow2(diff) - 1) * Pow2(bits_stored)) % 65536
        shifted == (v * Pow2(diff)) % 65536
    IN  BitOr(shifted, BitAnd(shifted, mask, 16) \div Pow2(bits_stored), 16)

\* the same value by arithmetic: the low bits_stored bits of v moved to the
\* top, plus the top diff bits of that repeated at the bottom
StretchedSample(v, bits_stored) ==
    LET top == (v % Pow2(bits_stored)) * Pow2(16 - bits_stored)
    IN  top + top \div Pow2(bits_stored)

\* the pixels decoded from a and from b
DecodedA == fn_out.val.pixels[<<0, 0>>]

DecodedB == fn_out.val.pixels[<<1, 0>>]

(***************************************************************************)
(* Age::parse_from_str on its own: the argument is any well-formed UTF-8   *)
(* string of 0..MaxAgeLen bytes over digits, '+', the unit letters, 'V'    *)
(* and the two bytes of a two-byte character.                              *)
(***************************************************************************)
MaxAgeLen == 4

\* 0 2 5 6 9 + D W M Y V and the bytes C3 A9
AgeBytes == { 48, 50, 53, 54, 57, 43, 68, 87, 77, 89, 86, 195, 169 }

AgeStrings ==
    { s \in UNION { [1 .. n -> AgeBytes] : n \in 0 .. MaxAgeLen } : IsUtf8From(s, 1) }
    \cup { <<48, 48, 49, 52, 89>>, <<48, 49, 52, 89, 89>> }

InitAge == DriverIdle /\ fn_in \in AgeStrings /\ fn_out = NoFn

ApplyAgeParse ==
    /\ fn_out.st = "NotApplied"
    /\ fn_out' = Age_parse_from_str(fn_in)
    /\ UNCHANGED <<input, doc, parse_image_flag, overflow_checks, state, current_buf,
                   obj, outcome, error, returned, trace, fn_in, frames>>

NextAge == ApplyAgeParse

SpecAge == InitAge /\ [][NextAge]_vars

\* three ASCII digits followed by one of D, W, M, Y
IsAgeString(s) ==
    /\ Len(s) = 4
    /\ \A i \in 1 .. 3 : IsDigit(s[i])
    /\ s[4] \in { 68, 87, 77, 89 }

UnitOf(b) ==
    IF b = 68 THEN "Day" ELSE IF b = 87 THEN "Week" ELSE IF b = 77 THEN "Month" ELSE "Year"

(***************************************************************************)
(* DicomObject::try_get on its own: an object of 0..MaxObjLen elements     *)
(* drawn from a pool (two-byte, three-byte, one-byte and empty values, a   *)
(* sequence, a name, an age, bytes that are not UTF-8; several share a     *)
(* tag), little or big endian, on which up to MaxCalls calls are made.     *)
(* doc keeps the object as constructed, trace how each call made so far    *)
(* ended, fn_in the last call and fn_out its result.                       *)
(***************************************************************************)
MaxObjLen == 2
MaxCalls == 2

Tag_x0010x0010 == <<16, 16>>
Tag_x0010x1010 == <<16, 4112>>
Tag_x0008x0020 == <<8, 32>>

BufElement(tag, bytes) == DataElement(tag, NoneVR, U32(0, Len(bytes)), Value_Buf(bytes))

ElementPool ==
    { BufElement(Tag_x0028x0010, <<3, 1>>),
      BufElement(Tag_x0028x0010, <<1, 2, 3>>),
      DataElement(Tag_x0028x0010, NoneVR, U32_MAX, Value_Sequence(<<Item(<<>>)>>)),
      BufElement(Tag_x0010x0010, <<65, 94, 66, 32>>),
      BufElement(Tag_x0010x0010, <<>>),
      BufElement(Tag_x0010x0010, <<255>>),
      BufElement(Tag_x0010x1010, <<48, 49, 52, 89>>),
      BufElement(Tag_x0010x1010, <<55>>) }

PoolObjects ==
    { DicomObject_new(els, ts) :
        els \in UNION { [1 .. n -> ElementPool] : n \in 0 .. MaxObjLen },
        ts \in { little_endian_explicit, big_endian_explicit } }

AskedTags == { Tag_x0028x0010, Tag_x0010x0010, Tag_x0010x1010, Tag_x0008x0020 }

InitTryGet ==
    /\ input = <<>>
    /\ parse_image_flag = TRUE
    /\ overflow_checks = TRUE
    /\ state = "Header"
    /\ current_buf = <<>>
    /\ \E o \in PoolObjects : obj = SomeObject(o) /\ doc = o
    /\ outcome = "Idle"
    /\ error = "None"
    /\ returned = NoObject
    /\ trace = <<>>
    /\ frames = <<>>
    /\ fn_in = NoFn
    /\ fn_out = NoFn

ApplyTryGet ==
    /\ Len(trace) < MaxCalls
    /\ fn_out.st # "Panic"
    /\ \E T \in TargetTypes, tag \in AskedTags :
          \E parsed \in (IF T = "NaiveDate" THEN BOOLEAN ELSE {TRUE}) :
              \E r \in {try_get(T, obj.o, tag, parsed)} :
                  /\ fn_in' = [T |-> T, tag |-> tag]
                  /\ fn_out' = r
                  /\ trace' = Append(trace, r.st)
    /\ UNCHANGED <<input, doc, parse_image_flag, overflow_checks, state, current_buf,
                   obj, outcome, error, returned, frames>>

NextTryGet == ApplyTryGet

SpecTryGet == InitTryGet /\ [][NextTryGet]_vars

\* the elements of the object as constructed that have the tag last asked for
Matches == { i \in 1 .. Len(doc.elements) : doc.elements[i].tag = fn_in.tag }

\* the first of them in list order
IsFirstMatch(i) == i \in Matches /\ \A j \in Matches : i <= j

\* C12: parse_dataelement reads tag, VR exactly when the transfer syntax is
\* explicit, length, value: for an element of defined length L it returns the
\* tag, the VR (Some under explicit VR, None under implicit), the length L, a
\* Bytes value that is the L input bytes after the header, and as remainder
\* the input after those bytes, under every transfer syntax.
C12_DefinedLengthElement ==
    (fn_out.st # "NotApplied" /\ fn_in.kind = "el" /\ fn_in.el.kind = "leaf") =>
        /\ fn_out.st = "Ok"
        /\ fn_out.val.tag = fn_in.el.tag
        /\ fn_out.val.vr.some <=> fn_in.ts.is_vr_explicit
        /\ fn_out.val.vr.some => fn_out.val.vr.chars = fn_in.el.vr
        /\ fn_out.val.length = [hi |-> 0, lo |-> Len(fn_in.el.bytes)]
        /\ fn_out.val.data.kind = "Buf"
        /\ fn_out.val.data.bytes
              = SubSeq(fn_in.buf, HeaderLen(fn_in.el, fn_in.ts) + 1,
                       HeaderLen(fn_in.el, fn_in.ts) + Len(fn_in.el.bytes))
        /\ fn_out.val.data.bytes = fn_in.el.bytes
        /\ fn_out.rest = fn_in.tail
        /\ fn_out.rest
              = Drop(fn_in.buf, HeaderLen(fn_in.el, fn_in.ts) + Len(fn_in.el.bytes))

\* big endian explicit VR, a VR with the long length, three bytes, a tail
C12_Witness ==
    /\ fn_out.st = "Ok" /\ fn_in.kind = "el" /\ fn_in.el.kind = "leaf"
    /\ fn_in.ts = big_endian_explicit /\ fn_in.el.vr = VR_OB
    /\ Len(fn_out.val.data.bytes) = MaxValueLen /\ Len(fn_out.rest) = 3

\* C13: under big-endian explicit VR, an undefined-length sequence whose item
\* starts and delimiters are written as little-endian sentinel tags parses
\* into its items, the remainder starting after the sequence delimiter.
C13_SentinelsLittleEndian ==
    (fn_out.st # "NotApplied" /\ fn_in.kind = "el" /\ fn_in.el.kind = "seq"
     /\ fn_in.ts = big_endian_explicit) =>
        /\ fn_out.st = "Ok"
        /\ fn_out.val = ExpEl(fn_in.el, fn_in.ts)
        /\ fn_out.rest = fn_in.tail

\* C14: an element of undefined length whose value is N items, N >= 0, and a
\* sequence delimiter parses to a Sequence value of exactly those N items in
\* input order, the remainder starting right after the sequence delimiter.
C14_SequenceOfNItems ==
    (fn_out.st # "NotApplied" /\ fn_in.kind = "el" /\ fn_in.el.kind = "seq") =>
        /\ fn_out.st = "Ok"
        /\ fn_out.val.data.kind = "Sequence"
        /\ Len(fn_out.val.data.items) = Len(fn_in.el.items)
        /\ fn_out.val.data.items = ExpItems(fn_in.el.items, fn_in.ts)
        /\ fn_out.rest = fn_in.tail

\* C15: inside an undefined-length sequence, a next tag that is neither
\* (FFFE,E000) nor (FFFE,E0DD) makes the parse fail with an error returned to
\* the caller.
C15_StrayTagIsError ==
    (fn_out.st # "NotApplied" /\ fn_in.kind = "stray") => fn_out.st = "Err"

\* C18: nesting depth is bounded: an input that nests sequences deeper than
\* the maximum depth is refused with an error.  parse_element_data, parse_seq
\* and parse_item take no depth and keep no count, so the statement is
\* checked for a maximum of DeepNesting - 1: an input nested DeepNesting deep
\* is refused with an error.
C18_DepthBounded ==
    (fn_out.st # "NotApplied" /\ fn_in.kind = "deep") => fn_out.st = "Err"

C17_DefinedLengthItem ==
    /\ (fn_out.st # "NotApplied" /\ fn_in.kind = "def") =>
          /\ fn_out.st = "Ok"
          /\ fn_out.val = Item(ExpEls(fn_in.els, fn_in.ts))
          /\ fn_out.rest = fn_in.tail
    /\ (fn_out.st # "NotApplied" /\ fn_in.kind = "overrun") => fn_out.st = "Err"

\* C19: under the JPEG2000 lossless transfer syntax parse_image reads the
\* pixel element's header (tag, VR, length) and returns Jpeg2000 whose payload
\* is byte for byte the whole rest of the buffer, with an empty remainder,
\* whatever rows, columns and bit depths are.
C19_Jpeg2000Verbatim ==
    (fn_out.st # "NotApplied" /\ fn_in.kind = "jp2") =>
        /\ fn_out.st = "Ok"
        /\ fn_out.rest = <<>>
        /\ fn_out.val.kind = "Jpeg2000"
        /\ fn_out.val.image = Drop(fn_in.buf, Len(fn_in.header))
        /\ fn_out.val.image = fn_in.payload \o fn_in.tail

\* a payload followed by a tail, an undefined length, 512 x 512 and a bit
\* depth the uncompressed decoder does not support
C19_Witness ==
    /\ fn_out.st = "Ok" /\ fn_in.kind = "jp2"
    /\ fn_in.bits_allocated = 12 /\ fn_in.rows = 512
    /\ Len(fn_in.payload) = MaxJp2Len /\ fn_in.tail # <<>>
    /\ Len(fn_out.val.image) = MaxJp2Len + Len(fn_in.tail)
    /\ SubSeq(fn_in.header, 9, 12) = Undefined

\* C20: for uncompressed data the image is columns wide and rows high and
\* filled in row-major order: pixel (x, y) comes from raw sample number
\* y * columns + x, a sample being one byte when bits_allocated is 8 and one
\* 16-bit integer in the active endianness when it is 16; the pixel equals
\* the raw sample when bits_allocated is 8 or bits_stored is 16, and is the
\* rescaled sample otherwise.
C20_RowMajorRawSamples ==
    (fn_out.st # "NotApplied" /\ fn_in.kind = "raw") =>
        /\ fn_out.st = "Ok"
        /\ fn_out.rest = fn_in.tail
        /\ fn_out.val.kind
              = (IF fn_in.bits_allocated = 8 THEN "Grayscale8" ELSE "Grayscale16")
        /\ fn_out.val.image.width = fn_in.columns
        /\ fn_out.val.image.height = fn_in.rows
        /\ \A x \in 0 .. fn_in.columns - 1, y \in 0 .. fn_in.rows - 1 :
              fn_out.val.image.pixels[<<x, y>>]
                = (IF fn_in.bits_allocated = 8 \/ fn_in.bits_stored = 16
                   THEN RawSample(y * fn_in.columns + x)
                   ELSE extend_bits(RawSample(y * fn_in.columns + x),
                                    fn_in.bits_allocated, fn_in.bits_stored).val)

\* a 2 x 3 image of 16-bit big-endian samples, bits_stored = bits_allocated:
\* the last pixel of the first row is sample 1, the first of the last row is
\* sample 4
C20_Witness ==
    /\ fn_out.st = "Ok" /\ fn_in.kind = "raw"
    /\ fn_in.columns = 2 /\ fn_in.rows = 3
    /\ fn_in.bits_allocated = 16 /\ fn_in.bits_stored = 16
    /\ fn_in.ts = big_endian_explicit
    /\ fn_out.val.image.pixels[<<1, 0>>] = 256 * fn_in.payload[3] + fn_in.payload[4]
    /\ fn_out.val.image.pixels[<<0, 2>>] = 256 * fn_in.payload[9] + fn_in.payload[10]
    /\ fn_out.val.image.pixels[<<1, 0>>] # fn_out.val.image.pixels[<<0, 1>>]

\* C21: for bits_allocated 16 and every bits_stored with 0 < bits_stored < 16
\* each decoded pixel is (v << diff) | (((v << diff) & mask) >> bits_stored)
\* on 16 bits, diff = 16 - bits_stored, mask = ((1 << diff) - 1) << bits_stored,
\* for every raw sample v, with or without overflow checks.
C21_RescaleFormula ==
    (fn_out.st # "NotApplied" /\ 0 < fn_in.bits_stored /\ fn_in.bits_stored < 16) =>
        /\ fn_out.st = "Ok"
        /\ fn_out.rest = <<>>
        /\ DecodedA = RescaleFormula(fn_in.a, fn_in.bits_stored)
        /\ DecodedB = RescaleFormula(fn_in.b, fn_in.bits_stored)
        /\ DecodedA = StretchedSample(fn_in.a, fn_in.bits_stored)
        /\ DecodedB = StretchedSample(fn_in.b, fn_in.bits_stored)

\* 12 bits stored: 0x0FFF becomes 0xFFFF and 0x0800 becomes 0x8008
C21_Witness ==
    /\ fn_out.st = "Ok" /\ fn_in.bits_stored = 12
    /\ fn_in.a = 4095 /\ DecodedA = 65535
    /\ fn_in.b = 2048 /\ DecodedB = 32776

\* C22 as stated: for bits_stored < bits_allocated the decoded pixel is
\* monotone in the raw sample, decoded(a) <= decoded(b) for any two raw
\* samples a <= b.
C22_MonotoneInRawSample ==
    (fn_out.st = "Ok" /\ fn_in.bits_stored < fn_in.bits_allocated /\ fn_in.a <= fn_in.b) =>
        DecodedA <= DecodedB

\* C22 amended: for bits_allocated 16 and 0 < bits_stored < 16 the decoded
\* pixel is monotone on the raw samples below 2^bits_stored, and the bits of
\* a sample from bit bits_stored up are dropped: two samples with the same
\* low bits_stored bits decode to the same pixel.
C22_MonotoneWithinStoredRange ==
    (fn_out.st # "NotApplied" /\ 0 < fn_in.bits_stored /\ fn_in.bits_stored < 16) =>
        /\ fn_out.st = "Ok"
        /\ (fn_in.a <= fn_in.b /\ fn_in.b < Pow2(fn_in.bits_stored)) => DecodedA <= DecodedB
        /\ (fn_in.a < fn_in.b /\ fn_in.b < Pow2(fn_in.bits_stored)) => DecodedA < DecodedB
        /\ (fn_in.a % Pow2(fn_in.bits_stored) = fn_in.b % Pow2(fn_in.bits_stored))
              => DecodedA = DecodedB

\* 12 bits stored, 0x0800 < 0x0FFF within the stored range
C22_Witness ==
    /\ fn_out.st = "Ok" /\ fn_in.bits_stored = 12
    /\ fn_in.a = 2048 /\ fn_in.b = 4095
    /\ DecodedA < DecodedB /\ DecodedB = 65535

\* C23: with image decoding enabled and no compression, a bits_allocated
\* value other than 8 and 16 makes parse_object fail by returning the error
\* ImageFormatNotSupported.
C23_UnsupportedBitsIsError ==
    (/\ outcome \in {"Ok", "Err", "Panic"}
     /\ parse_image_flag
     /\ doc.ts.compression_scheme = "None"
     /\ doc.ba \notin {8, 16}
     /\ \E i \in DOMAIN trace : trace[i] = "Images") =>
        outcome = "Err" /\ error = "ImageFormatNotSupported"

\* the left-shifted, bit-replicated value of a byte of which bits_stored bits
\* are stored
StretchedByte(v, bits_stored) ==
    LET top == (v % Pow2(bits_stored)) * Pow2(8 - bits_stored)
    IN  top + top \div Pow2(bits_stored)

\* C24: the rescale applies for bits_allocated 8 as well: with bits_stored
\* below 8 each decoded 8-bit pixel is the left-shifted, bit-replicated value
\* of the raw byte.
C24_EightBitRescaled ==
    (fn_out.st = "Ok" /\ fn_in.kind = "raw" /\ fn_in.bits_allocated = 8
     /\ fn_in.bits_stored < 8) =>
        \A x \in 0 .. fn_in.columns - 1, y \in 0 .. fn_in.rows - 1 :
            fn_out.val.image.pixels[<<x, y>>]
              = StretchedByte(RawSample(y * fn_in.columns + x), fn_in.bits_stored)

\* C27: Age::parse_from_str succeeds exactly on the 4-byte strings made of
\* three ASCII digits followed by one of D, W, M, Y, returning the decimal
\* value of the three digits and the matching unit; every other string is an
\* error.
C27_AgeExactlyThreeDigitsAndUnit ==
    fn_out.st # "NotApplied" =>
        IF IsAgeString(fn_in)
        THEN /\ fn_out.st = "Ok"
             /\ fn_out.val.age = 100 * (fn_in[1] - 48) + 10 * (fn_in[2] - 48) + (fn_in[3] - 48)
             /\ fn_out.val.format = UnitOf(fn_in[4])
        ELSE fn_out.st = "Err"

\* C25: try_get(tag) converts the first element in list order whose tag is
\* the requested one; it returns NoSuchTag when no element has the tag and
\* ConvertTypeExpectBuf, for every target type, when that first element holds
\* a Sequence; the object is left as it was, so that every call, also one made
\* after a failed conversion, is answered from the same elements.
C25_TryGetFirstMatch ==
    /\ obj = SomeObject(doc)
    /\ fn_out.st # "NotApplied" =>
          /\ Matches = {} => fn_out.st = "Err" /\ fn_out.kind = "NoSuchTag"
          /\ \A i \in Matches :
                IsFirstMatch(i) =>
                   /\ fn_out.kind # "NoSuchTag"
                   /\ \E parsed \in BOOLEAN :
                         fn_out = from_element(fn_in.T, doc.elements[i],
                                               doc.transfer_syntax, parsed)
                   /\ doc.elements[i].data.kind = "Sequence" =>
                         fn_out.st = "Err" /\ fn_out.kind = "ConvertTypeExpectBuf"
                   /\ (fn_in.T = "u16" /\ doc.elements[i].data.kind = "Buf"
                       /\ Len(doc.elements[i].data.bytes) = 2) =>
                         /\ fn_out.st = "Ok"
                         /\ fn_out.val
                              = (IF doc.transfer_syntax.endianness = "Little"
                                 THEN doc.elements[i].data.bytes[1]
                                      + 256 * doc.elements[i].data.bytes[2]
                                 ELSE 256 * doc.elements[i].data.bytes[1]
                                      + doc.elements[i].data.bytes[2])

\* two elements with the tag, the first a sequence and the second two bytes:
\* a conversion fails, and the later one to u16 fails on the sequence
C25_Witness ==
    /\ Len(trace) = 2
    /\ Len(doc.elements) = 2
    /\ doc.elements[1].data.kind = "Sequence"
    /\ doc.elements[2] = BufElement(Tag_x0028x0010, <<3, 1>>)
    /\ trace = <<"Err", "Err">>
    /\ fn_in.tag = Tag_x0028x0010 /\ fn_in.T = "u16"
    /\ fn_out.st = "Err" /\ fn_out.kind = "ConvertTypeExpectBuf"

\* C26: the u16 accessor succeeds exactly on Bytes values of length 2,
\* returning the two bytes decoded in the object's endianness; on a Bytes
\* value of any other length it fails with a conversion error.
C26_U16ExactlyTwoBytes ==
    (fn_out.st # "NotApplied" /\ fn_in.T = "u16") =>
        \A i \in Matches :
            (IsFirstMatch(i) /\ doc.elements[i].data.kind = "Buf") =>
                IF Len(doc.elements[i].data.bytes) = 2
                THEN /\ fn_out.st = "Ok"
                     /\ fn_out.val
                          = (IF doc.transfer_syntax.endianness = "Little"
                             THEN doc.elements[i].data.bytes[1]
                                  + 256 * doc.elements[i].data.bytes[2]
                             ELSE 256 * doc.elements[i].data.bytes[1]
                                  + doc.elements[i].data.bytes[2])
                ELSE fn_out.st = "Err"

IsSuffixOf(s, t) == Len(s) <= Len(t) /\ s = Drop(t, Len(t) - Len(s))

\* C30: throughout a parse the remaining buffer is a suffix of the input and
\* only ever shrinks: after every step of parse_object, current_buf is a
\* suffix of the input and no longer than it was before the step.
C30_BufferOnlyShrinks ==
    [][IsSuffixOf(current_buf', input) /\ Len(current_buf') <= Len(current_buf)]_vars

(***************************************************************************)
(* parse_object one loop iteration at a time.  `frames` is the stack of    *)
(* the loops that are running: the loop of parse_group2 or parse_content   *)
(* at the bottom, above it a parse_seq loop for each element of undefined  *)
(* length being read and a parse_item loop for each item being read.  A    *)
(* frame holds the locals of its loop and, in `pending`, the element       *)
(* header already read for the element whose value the frames above it     *)
(* are reading.                                                            *)
(***************************************************************************)
NoPending == [purpose |-> "none", tag |-> Tag_x0002x0010, vr |-> NoneVR, length_before |-> 0]

\* the locals of a loop at its first iteration
Frame(loop, transfer_syntax) ==
    [loop |-> loop, transfer_syntax |-> transfer_syntax, ts |-> NoneTS,
     elements |-> <<>>, remaining_len |-> UsizeZero, is_len_undefined |-> FALSE,
     pending |-> NoPending]

ItemFrame(transfer_syntax, length) ==
    [Frame("item", transfer_syntax) EXCEPT !.remaining_len = UsizeFromU32(length),
                                           !.is_len_undefined = (length = U32_MAX)]

\* the frames with the innermost replaced
WithTop(fs, f) == [fs EXCEPT ![Len(fs)] = f]

Top(fs) == fs[Len(fs)]

Pop(fs) == SubSeq(fs, 1, Len(fs) - 1)

\* an iteration going on: the buffer left and the frames after it
Going(rest, fs) == Ok(rest, [frames |-> fs, stopped |-> FALSE, last |-> Frame("none", little_endian_explicit)])

\* the outermost loop left through its break: the buffer and the loop's locals
Stopped(rest, f) == Ok(rest, [frames |-> <<>>, stopped |-> TRUE, last |-> f])

\* parse_item returns and parse_seq pushes the item
ItemReturns(fs, buf) ==
    LET s == fs[Len(fs) - 1]
    IN  Going(buf, WithTop(Pop(fs),
              [s EXCEPT !.elements = Append(s.elements, Item(Top(fs).elements))]))

\* an element has been read whole for the innermost loop of fs, which goes on
\* with the statements after its parse_dataelement call
RECURSIVE ElementRead(_, _, _)
ElementRead(fs, rest, el) ==
    LET f == Top(fs)
        g == [f EXCEPT !.pending = NoPending]
    IN  IF f.pending.purpose = "delimiter"
        THEN IF f.loop = "item"
             THEN ItemReturns(fs, rest)
             ELSE \* parse_seq returns to parse_element_data and parse_dataelement
                  LET p == fs[Len(fs) - 1]
                  IN  ElementRead(Pop(fs), rest,
                          DataElement(p.pending.tag, p.pending.vr, U32_MAX,
                                      Value_Sequence(f.elements)))
        ELSE IF f.loop = "group2"
        THEN TryNow(unwrap(group2_ts(f.ts, el)), LAMBDA new_ts :
             Going(rest, WithTop(fs, [g EXCEPT !.ts = new_ts.val,
                                               !.elements = Append(f.elements, el)])))
        ELSE IF f.loop = "item"
        THEN TryNow(usize_sub_assign(f.remaining_len, f.pending.length_before - Len(rest)),
                 LAMBDA left :
             Going(rest, WithTop(fs, [g EXCEPT !.remaining_len = left.val,
                                               !.elements = Append(f.elements, el)])))
        ELSE Going(rest, WithTop(fs, [g EXCEPT !.elements = Append(f.elements, el)]))

\* parse_dataelement called by the innermost loop: the header is read, then
\* the value bytes, or parse_seq is entered when the length is undefined
StartElement(fs, buf, transfer_syntax, purpose) ==
    TryNow(parse_tag(buf, transfer_syntax.endianness), LAMBDA tag :
    TryNow(cond_parse_vr(transfer_syntax.is_vr_explicit, tag.rest), LAMBDA vr :
    TryNow(parse_length(vr.rest, vr.val, transfer_syntax.endianness), LAMBDA length :
    LET fs1 == WithTop(fs, [Top(fs) EXCEPT !.pending =
                   [purpose |-> purpose, tag |-> tag.val, vr |-> vr.val,
                    length_before |-> Len(buf)]])
    IN  IF length.val = U32_MAX
        THEN Going(length.rest, Append(fs1, Frame("seq", transfer_syntax)))
        ELSE TryNow(parse_data(length.rest, length.val), LAMBDA data :
             ElementRead(fs1, data.rest,
                         DataElement(tag.val, vr.val, length.val, Value_Buf(data.val)))))))

\* one iteration of parse_group2's loop
Group2Iter(fs, buf) ==
    TryNow(peek_tag(buf, "Little"), LAMBDA next_tag :
    IF get_group(next_tag.val) # 2
    THEN IF Top(fs).ts.some THEN Stopped(buf, Top(fs))
         ELSE Panic("There should be the transfer syntax in group 2.")
    ELSE StartElement(fs, buf, little_endian_explicit, "member"))

\* parse_content's loop taking the element in and going on from where it was
ContentIter_keep_buffer(fs, buf) ==
    TryNow(peek_tag(buf, Top(fs).transfer_syntax.endianness), LAMBDA next_tag :
    IF next_tag.val = Tag_x7FE0x0010 THEN Stopped(buf, Top(fs))
    ELSE TryNow(StartElement(fs, buf, Top(fs).transfer_syntax, "member"), LAMBDA el :
         Going(buf, el.val.frames)))

\* one iteration of parse_content's loop
ContentIter(fs, buf) ==
    TryNow(peek_tag(buf, Top(fs).transfer_syntax.endianness), LAMBDA next_tag :
    IF next_tag.val = Tag_x7FE0x0010 THEN Stopped(buf, Top(fs))
    ELSE StartElement(fs, buf, Top(fs).transfer_syntax, "member"))

\* one iteration of parse_seq's loop: an item is entered, or the sequence
\* delimiter is read
SeqIter(fs, buf) ==
    LET transfer_syntax == Top(fs).transfer_syntax
    IN  TryNow(peek_tag(buf, "Little"), LAMBDA next_tag :
        IF next_tag.val = Tag_xFFFExE000
        THEN TryNow(parse_tag(buf, transfer_syntax.endianness), LAMBDA tag :
             IF tag.val # Tag_xFFFExE000 THEN Panic("assertion failed: (left == right)")
             ELSE TryNow(parse_length(tag.rest, NoneVR, transfer_syntax.endianness),
                      LAMBDA length :
                  Going(length.rest, Append(fs, ItemFrame(transfer_syntax, length.val)))))
        ELSE IF next_tag.val = Tag_xFFFExE0DD
        THEN StartElement(fs, buf, little_endian_implicit, "delimiter")
        ELSE Panic("Unexpected tag"))

\* one iteration of parse_item's loop
ItemIter(fs, buf) ==
    LET f == Top(fs)
    IN  IF f.is_len_undefined
        THEN TryNow(peek_tag(buf, "Little"), LAMBDA next_tag :
             IF next_tag.val = Tag_xFFFExE00D
             THEN StartElement(fs, buf, little_endian_implicit, "delimiter")
             ELSE StartElement(fs, buf, f.transfer_syntax, "member"))
        ELSE IF f.remaining_len = UsizeZero THEN ItemReturns(fs, buf)
        ELSE StartElement(fs, buf, f.transfer_syntax, "member")

\* the error of an iteration leaving parse_object through `?`, or its panic
\* unwinding: every loop is left
FailInLoop(r) ==
    /\ Fail(r)
    /\ frames' = <<>>
    /\ trace' = Append(trace, state)

\* an iteration of a parse_seq or parse_item loop, run on behalf of the arm
\* the parser is in
NestedStep(r) ==
    IF IsOk(r)
    THEN /\ frames' = r.val.frames
         /\ current_buf' = r.rest
         /\ UNCHANGED <<state, obj, outcome, error, returned, trace>>
    ELSE FailInLoop(r)

LoopsHeader ==
    /\ Running /\ state = "Header"
    /\ \E r \in {parse_header(current_buf)} :
          IF IsOk(r)
          THEN /\ state' = "Group2"
               /\ current_buf' = r.rest
               /\ frames' = <<Frame("group2", little_endian_explicit)>>
               /\ trace' = Append(trace, state)
               /\ UNCHANGED <<obj, outcome, error, returned>>
          ELSE FailInLoop(r)
    /\ UNCHANGED <<input, doc, parse_image_flag, overflow_checks, fn_in, fn_out>>

Group2Iteration ==
    /\ Running /\ state = "Group2"
    /\ Len(frames) = 1
    /\ \E r \in {Group2Iter(frames, current_buf)} :
          IF ~IsOk(r) THEN FailInLoop(r)
          ELSE IF r.val.stopped
          THEN /\ obj' = SomeObject(DicomObject_new(r.val.last.elements, r.val.last.ts.ts))
               /\ state' = "Content"
               /\ current_buf' = r.rest
               /\ frames' = <<Frame("content", r.val.last.ts.ts)>>
               /\ trace' = Append(trace, state)
               /\ UNCHANGED <<outcome, error, returned>>
          ELSE /\ frames' = r.val.frames
               /\ current_buf' = r.rest
               /\ UNCHANGED <<state, obj, outcome, error, returned, trace>>
    /\ UNCHANGED <<input, doc, parse_image_flag, overflow_checks, fn_in, fn_out>>

ContentIteration ==
    /\ Running /\ state = "Content"
    /\ Len(frames) = 1
    /\ \E r \in {Try(unwrap_obj(obj), LAMBDA o : ContentIter(frames, current_buf))} :
          IF ~IsOk(r) THEN FailInLoop(r)
          ELSE IF r.val.stopped
          THEN /\ obj' = SomeObject(DicomObject_append(obj.o, r.val.last.elements))
               /\ state' = "Images"
               /\ current_buf' = r.rest
               /\ frames' = <<>>
               /\ trace' = Append(trace, state)
               /\ UNCHANGED <<outcome, error, returned>>
          ELSE /\ frames' = r.val.frames
               /\ current_buf' = r.rest
               /\ UNCHANGED <<state, obj, outcome, error, returned, trace>>
    /\ UNCHANGED <<input, doc, parse_image_flag, overflow_checks, fn_in, fn_out>>

SeqIteration ==
    /\ Running /\ Len(frames) > 1
    /\ Top(frames).loop = "seq"
    /\ \E r \in {SeqIter(frames, current_buf)} : NestedStep(r)
    /\ UNCHANGED <<input, doc, parse_image_flag, overflow_checks, fn_in, fn_out>>

ItemIteration ==
    /\ Running /\ Len(frames) > 1
    /\ Top(frames).loop = "item"
    /\ \E r \in {ItemIter(frames, current_buf)} : NestedStep(r)
    /\ UNCHANGED <<input, doc, parse_image_flag, overflow_checks, fn_in, fn_out>>

\* a file whose content starts with a sequence element of the given value
\* bytes, after the group-2 elements and those of g2_more
LoopFile(ts, g2_more, value) ==
    EncHeader("good") \o EncEls(G2Elements(WireUID(ts)), little_endian_explicit)
    \o g2_more \o SeqOpen(<<8, 4416>>, ts) \o value
    \o EncEls(ImageAttributes(ts, 1, 1, 8, 8) \o <<PixelElement(1, 1, 8)>>, ts)

\* a delimiter tag followed by the undefined length and a sequence value
OpenDelimiter(tag) ==
    EncTag(tag, "Little") \o Undefined
    \o EncItems(ItemsOf(1), little_endian_implicit) \o EncSeqDelimiter

\* the buffers the loops are followed on, besides the files of Inputs with an
\* image of one pixel at most: a
\* sequence of one item of every shape (closed, counted, counted short,
\* never closed, followed by stray bytes), sequences nested up to MaxNest
\* deep, a sequence among the group-2 elements, and delimiters that carry an
\* undefined length and so a sequence of their own
LoopBuffers ==
    UNION { { LoopFile(ts, <<>>, i.buf \o EncSeqDelimiter) : i \in ItemInputsOf(ts) }
            \cup { LoopFile(ts, <<>>, EncItems(<<AItem(TRUE, <<NestedSeq(d)>>)>>, ts)
                                      \o EncSeqDelimiter) : d \in 1 .. MaxNest }
            \cup { LoopFile(ts, EncEl(SeqEl(<<2, 258>>, ItemsOf(n)), little_endian_explicit),
                            EncSeqDelimiter) : n \in 0 .. MaxItems }
            \cup { LoopFile(ts, <<>>, OpenDelimiter(Tag_xFFFExE0DD)),
                   LoopFile(ts, <<>>, ItemBuf(ts.endianness, Undefined, <<PatientName>>, ts,
                                              OpenDelimiter(Tag_xFFFExE00D))
                                      \o EncSeqDelimiter) } :
            ts \in Syntaxes }

InitLoops ==
    /\ \/ \E i \in Inputs : /\ i.doc.rows <= 1 /\ i.doc.cols <= 1
                            /\ input = i.bytes /\ doc = i.doc
       \/ input \in LoopBuffers /\ doc = <<>>
    /\ parse_image_flag \in BOOLEAN
    /\ overflow_checks \in BOOLEAN
    /\ state = "Header"
    /\ current_buf = input
    /\ obj = NoObject
    /\ outcome = "Running"
    /\ error = "None"
    /\ returned = NoObject
    /\ trace = <<>>
    /\ frames = <<>>
    /\ fn_in = NoFn
    /\ fn_out = NoFn

NextLoops ==
    \/ LoopsHeader \/ Group2Iteration \/ ContentIteration
    \/ SeqIteration \/ ItemIteration
    \/ Images \/ Finished

SpecLoops == InitLoops /\ [][NextLoops]_vars

\* the loop iterations are run one after the other until parse_object returns
SpecLoopsFair == SpecLoops /\ WF_vars(NextLoops)

\* the iterations add up to the arms: when an arm has been left, the object,
\* the buffer and the outcome are those of parse_group2 and parse_content
\* run in one go
LoopsAgreeWithArms ==
    LET h == parse_header(input)
        g == parse_group2(h.rest)
        c == parse_content(g.rest, g.val.transfer_syntax)
        failed(r) == /\ outcome = (IF r.st = "Panic" THEN "Panic" ELSE "Err")
                     /\ error = (IF r.st = "Panic" THEN r.kind ELSE "ParseError")
    IN  /\ (outcome # "Running" /\ trace = <<"Header", "Group2">>) =>
              ~IsOk(g) /\ failed(g)
        /\ (outcome = "Running" /\ trace = <<"Header", "Group2">>) =>
              /\ IsOk(g)
              /\ Len(frames) = 1 /\ frames[1].elements = <<>> =>
                    /\ current_buf = g.rest
                    /\ obj = SomeObject(DicomObject_new(g.val.elements,
                                                        g.val.transfer_syntax))
        /\ (outcome # "Running" /\ trace = <<"Header", "Group2", "Content">>) =>
              IsOk(g) /\ ~IsOk(c) /\ failed(c)
        /\ (outcome = "Running" /\ trace = <<"Header", "Group2", "Content">>) =>
              /\ IsOk(g) /\ IsOk(c)
              /\ current_buf = c.rest
              /\ obj = SomeObject(DicomObject_append(
                           DicomObject_new(g.val.elements, g.val.transfer_syntax), c.val))

\* a loop is left: the innermost loop returns to its caller, or the arm's
\* loop breaks and the parser changes state
LoopStops == Len(frames') < Len(frames) \/ state' # state

\* C29: parse_object terminates on every finite input: every iteration of
\* the group-2 loop, the content loop, the sequence loop and the item loop
\* stops its loop, fails, or strictly shortens the remaining buffer, and
\* every run of the parser reaches the point where parse_object returns.
C29_LoopsTerminate ==
    /\ [][frames # <<>> =>
            \/ LoopStops
            \/ outcome' \in {"Err", "Panic"}
            \/ Len(current_buf') < Len(current_buf)]_vars
    /\ <>(outcome # "Running")

\* a file parsed to the end whose content held a sequence of two items, the
\* first with two elements
C29_Witness ==
    /\ outcome = "Ok" /\ returned.some
    /\ \E i \in 1 .. Len(returned.o.elements) :
          LET el == returned.o.elements[i]
          IN  /\ el.data.kind = "Sequence"
              /\ Len(el.data.items) = 2
              /\ Len(el.data.items[1].elements) = 2

====
